---- MODULE Spec2Model ----
(***************************************************************************)
(* A model of the Kaleidoscope-style front end in src/lexer.cpp: the       *)
(* parser over the token stream, the code generator over the current       *)
(* compilation unit (TheModule), the session-wide prototype registry       *)
(* (FunctionProtos) and the REPL driver (Mainloop and its handlers).       *)
(*                                                                         *)
(* The driver specifications work on the token stream gettok() delivers:   *)
(* `input` is the finite sequence of tokens before end of input, `pos` the *)
(* number of tokens fetched so far.  The lexer specification works on      *)
(* characters: there `input` is the text of standard input.  The code      *)
(* generation specification works on one parsed function: there `input`   *)
(* is its FunctionAST.                                                     *)
(***************************************************************************)
EXTENDS Integers, Sequences, FiniteSets, TLC

VARIABLES
    input,            \* the tokens gettok() delivers before tok_eof
    pos,              \* number of tokens fetched by getNextToken so far
    CurTok,           \* the parser's current token
    BinopPrecedence,  \* operator table (std::map<char,int>)
    FunctionProtos,   \* prototype registry: name -> parameter names
    TheModule,        \* functions of the current compilation unit
    NamedValues,      \* variable scope table
    TheJIT,           \* units loaded in the backend
    pc,               \* position of the driver
    ev,               \* what the last driver step did, in order
    unitNo,           \* identity of the current compilation unit
    hist,             \* the top-level items processed so far
    result,           \* result of the last pure-function application
    stdin,            \* the characters of standard input not yet read
    LastChar,         \* gettok's static LastChar
    nread,            \* number of getchar() calls so far
    toks,             \* the tokens gettok has returned so far
    run               \* the execution of a generated function

\* The state of the lexer, and the state outside the front end proper.
lexvars == << stdin, LastChar, nread, toks >>
aux == << lexvars, run >>

vars == << input, pos, CurTok, BinopPrecedence, FunctionProtos, TheModule,
           NamedValues, TheJIT, pc, ev, unitNo, hist, result, stdin, LastChar,
           nread, toks, run >>

-----------------------------------------------------------------------------
(* Bounds of the model. *)

MaxItems == 3
MaxOps == 3
MaxChars == 4
MaxEofs == 3
MaxSteps == 24

-----------------------------------------------------------------------------
(* Tokens (enum Token, and raw characters). *)

Tk(t, s, v) == [t |-> t, s |-> s, v |-> v]
tok_eof == Tk("tok_eof", "", 0)
tok_def == Tk("tok_def", "", 0)
tok_extern == Tk("tok_extern", "", 0)
tok_if == Tk("tok_if", "", 0)
tok_then == Tk("tok_then", "", 0)
tok_else == Tk("tok_else", "", 0)
tok_for == Tk("tok_for", "", 0)
tok_in == Tk("tok_in", "", 0)
Id(s) == Tk("tok_identifier", s, 0)
Num(v) == Tk("tok_number", "", v)
Ch(c) == Tk("char", c, 0)

IsCh(tok, c) == tok.t = "char" /\ tok.s = c

\* The token current after p calls of getNextToken: CurTok starts as ';',
\* and gettok keeps returning tok_eof once the input is exhausted.
Tok(p) ==
    IF p = 0 THEN Ch(";")
    ELSE IF p <= Len(input) THEN input[p]
    ELSE tok_eof

-----------------------------------------------------------------------------
(* Lexer.  The lexer state L is the input not yet read (in), gettok's      *)
(* static LastChar (last) and the number of getchar() calls made (n).  A   *)
(* character is a string of length one; EOF is what getchar() returns at   *)
(* the end of the input.                                                   *)

EOF == "EOF"

Letters == {"i", "n"}
Digits == {"1"}

isspace(c) == c \in {" ", "\n", "\r"}
isalpha(c) == c \in Letters
isdigit(c) == c \in Digits
isalnum(c) == isalpha(c) \/ isdigit(c)

\* LastChar = getchar()
getchar(L) ==
    IF L.in = << >> THEN [in |-> << >>, last |-> EOF, n |-> L.n + 1]
    ELSE [in |-> Tail(L.in), last |-> Head(L.in), n |-> L.n + 1]

\* What gettok returns: the token, and the lexer state it leaves.
Lexed(tok, L) == [tok |-> tok, L |-> L]

RECURSIVE SkipSpace(_), IdentifierLoop(_, _), NumberLoop(_, _),
          CommentLoop(_), StrtodFrom(_, _, _, _, _), Normalized(_, _),
          gettok(_)

\* while(isspace(LastChar)) LastChar = getchar();
SkipSpace(L) == IF isspace(L.last) THEN SkipSpace(getchar(L)) ELSE L

\* The keyword comparisons on IdentifierStr.
Keyword(IdentifierStr) ==
    CASE IdentifierStr = "def" -> tok_def
      [] IdentifierStr = "extern" -> tok_extern
      [] IdentifierStr = "if" -> tok_if
      [] IdentifierStr = "then" -> tok_then
      [] IdentifierStr = "else" -> tok_else
      [] IdentifierStr = "for" -> tok_for
      [] IdentifierStr = "in" -> tok_in
      [] OTHER -> Id(IdentifierStr)

\* while(isalnum(LastChar = getchar())) IdentifierStr += LastChar; L is the
\* state after the getchar().
IdentifierLoop(L, IdentifierStr) ==
    IF isalnum(L.last) THEN IdentifierLoop(getchar(L), IdentifierStr \o L.last)
    ELSE Lexed(Keyword(IdentifierStr), L)

\* A double with a finite decimal expansion is m / 10^e, with no trailing
\* zero counted in e.
Normalized(m, e) ==
    IF e > 0 /\ m % 10 = 0 THEN Normalized(m \div 10, e - 1)
    ELSE [m |-> m, e |-> e]

DigitValue(c) ==
    CASE c = "0" -> 0 [] c = "1" -> 1 [] c = "2" -> 2 [] c = "3" -> 3
      [] c = "4" -> 4 [] c = "5" -> 5 [] c = "6" -> 6 [] c = "7" -> 7
      [] c = "8" -> 8 [] c = "9" -> 9

\* strtod: the longest prefix digits [. digits] of NumStr is converted; what
\* follows (a second '.') is ignored, and no digit at all gives 0.
StrtodFrom(NumStr, i, dot, m, e) ==
    IF i > Len(NumStr) THEN Normalized(m, e)
    ELSE IF NumStr[i] = "."
         THEN IF dot THEN Normalized(m, e)
              ELSE StrtodFrom(NumStr, i + 1, TRUE, m, e)
    ELSE StrtodFrom(NumStr, i + 1, dot, 10 * m + DigitValue(NumStr[i]),
                    IF dot THEN e + 1 ELSE e)

strtod(NumStr) == StrtodFrom(NumStr, 1, FALSE, 0, 0)

\* do { NumStr += LastChar; LastChar = getchar(); }
\* while(isdigit(LastChar) || LastChar == '.');
NumberLoop(L, NumStr) ==
    IF isdigit(L.last) \/ L.last = "."
    THEN NumberLoop(getchar(L), Append(NumStr, L.last))
    ELSE Lexed(Num(strtod(NumStr)), L)

\* do LastChar = getchar();
\* while(LastChar != EOF && LastChar != '\n' && LastChar != '\r');
\* L is the state after the getchar().
CommentLoop(L) ==
    IF L.last \notin {EOF, "\n", "\r"} THEN CommentLoop(getchar(L)) ELSE L

\* The end-of-file check with a getchar() behind it.
EofOrCharEatsEof(L) ==
    IF L.last = EOF THEN Lexed(tok_eof, getchar(L))
    ELSE Lexed(Ch(L.last), getchar(L))

\* Check for end of file, don't eat the EOF; otherwise return the character
\* and read the next one.
EofOrChar(L) ==
    IF L.last = EOF THEN Lexed(tok_eof, L)
    ELSE Lexed(Ch(L.last), getchar(L))

\* After a comment, the line end is handed out as a token.
AfterCommentNoRecursion(L) == EofOrChar(L)

\* if(LastChar != EOF) return gettok(); L is the state after the comment.
AfterComment(L) == IF L.last # EOF THEN gettok(L) ELSE EofOrChar(L)

\* gettok after the whitespace is skipped.
NextToken(L) ==
    IF isalpha(L.last) THEN IdentifierLoop(getchar(L), L.last)
    ELSE IF isdigit(L.last) \/ L.last = "." THEN NumberLoop(L, << >>)
    ELSE IF L.last = "#" THEN AfterComment(CommentLoop(getchar(L)))
    ELSE EofOrChar(L)

gettok(L) == NextToken(SkipSpace(L))

-----------------------------------------------------------------------------
(* AST nodes. *)

Null == [k |-> "null"]
IsNull(x) == x.k = "null"
NumberExprAST(v) == [k |-> "num", v |-> v]
VariableExprAST(n) == [k |-> "var", n |-> n]
BinaryExprAST(op, l, r) == [k |-> "bin", op |-> op, l |-> l, r |-> r]
CallExprAst(callee, args) == [k |-> "call", callee |-> callee, args |-> args]
IfExprAST(c, t, e) == [k |-> "if", c |-> c, t |-> t, e |-> e]
ForExprAST(v, start, end, step, body) ==
    [k |-> "for", v |-> v, start |-> start, end |-> end, step |-> step,
     body |-> body]
PrototypeAST(name, args) == [k |-> "proto", name |-> name, args |-> args]
FunctionAST(proto, body) == [k |-> "func", proto |-> proto, body |-> body]

AnonName == "__anon_expr"

-----------------------------------------------------------------------------
(* Parser.  Every parse operator takes the position p of the current token *)
(* and the operator table bp, and returns the node (Null on failure), the  *)
(* position of the token current afterwards, and the operator table.  A    *)
(* function that goes on after a sub-parse is split at that point: the     *)
(* operator named after the function starts it, and the operators before   *)
(* it take the sub-parse's result and carry on from there.                 *)

PR(ast, p, bp) == [ok |-> TRUE, ast |-> ast, p |-> p, bp |-> bp]
\* LogError(...) / return nullptr, with the token at p left current.
Fail(p, bp) == [ok |-> FALSE, ast |-> Null, p |-> p, bp |-> bp]
Failed(r) == ~r.ok

\* BinopPrecedence[CurTok] of std::map: a missing key is inserted with 0.
MapLookup(bp, c) ==
    IF c \in DOMAIN bp THEN bp
    ELSE [x \in DOMAIN bp \cup {c} |-> IF x = c THEN 0 ELSE bp[x]]

\* if(TokPrec <= 0) return -1; return TokPrec;
TokPrecOf(bp2, c) ==
    [prec |-> IF bp2[c] <= 0 THEN -1 ELSE bp2[c], bp |-> bp2]

\* Keyword and category tags are negative, hence not isascii.
GetTokPrecedence(p, bp) ==
    IF Tok(p).t # "char" THEN [prec |-> -1, bp |-> bp]
    ELSE TokPrecOf(MapLookup(bp, Tok(p).s), Tok(p).s)

RECURSIVE ParseExpression(_, _), ParsePrimary(_, _), ParseBinOpRHS(_, _, _, _),
          ParseCallArgs(_, _, _), ParseProtoArgs(_, _)

ParseNumberExpr(p, bp) == PR(NumberExprAST(Tok(p).v), p + 1, bp)

\* ParseParenExpr after V = ParseExpression().
ParenClose(V) ==
    IF Failed(V) THEN V
    ELSE IF ~IsCh(Tok(V.p), ")") THEN Fail(V.p, V.bp)
    ELSE PR(V.ast, V.p + 1, V.bp)

ParseParenExpr(p, bp) == ParenClose(ParseExpression(p + 1, bp))

\* The argument loop of ParseIdentifierExpr after Arg = ParseExpression().
CallArgsNext(Arg, Args) ==
    IF Failed(Arg) THEN Arg
    ELSE IF IsCh(Tok(Arg.p), ")")
         THEN PR(Append(Args, Arg.ast), Arg.p, Arg.bp)
    ELSE IF ~IsCh(Tok(Arg.p), ",") THEN Fail(Arg.p, Arg.bp)
    ELSE ParseCallArgs(Arg.p + 1, Arg.bp, Append(Args, Arg.ast))

\* The argument loop of ParseIdentifierExpr; p is at the start of an argument.
ParseCallArgs(p, bp, Args) == CallArgsNext(ParseExpression(p, bp), Args)

\* ParseIdentifierExpr after the argument loop: eat the ')'.
CallClose(IdName, A) ==
    IF Failed(A) THEN A
    ELSE PR(CallExprAst(IdName, A.ast), A.p + 1, A.bp)

ParseIdentifierExpr(p, bp) ==
    IF ~IsCh(Tok(p + 1), "(") THEN PR(VariableExprAST(Tok(p).s), p + 1, bp)
    ELSE IF IsCh(Tok(p + 2), ")")
         THEN PR(CallExprAst(Tok(p).s, << >>), p + 3, bp)
    ELSE CallClose(Tok(p).s, ParseCallArgs(p + 2, bp, << >>))

\* ParseIfExpr after Else = ParseExpression().
IfFinish(Cond, Then, Else) ==
    IF Failed(Else) THEN Else
    ELSE PR(IfExprAST(Cond.ast, Then.ast, Else.ast), Else.p, Else.bp)

\* ParseIfExpr after Then = ParseExpression().
IfElse(Cond, Then) ==
    IF Failed(Then) THEN Then
    ELSE IF Tok(Then.p) # tok_else THEN Fail(Then.p, Then.bp)
    ELSE IfFinish(Cond, Then, ParseExpression(Then.p + 1, Then.bp))

\* ParseIfExpr after Cond = ParseExpression().
IfThen(Cond) ==
    IF Failed(Cond) THEN Cond
    ELSE IF Tok(Cond.p) # tok_then THEN Fail(Cond.p, Cond.bp)
    ELSE IfElse(Cond, ParseExpression(Cond.p + 1, Cond.bp))

ParseIfExpr(p, bp) == IfThen(ParseExpression(p + 1, bp))

\* ParseForExpr after Body = ParseExpression().
ForFinish(IdName, Start, End, Step, Body) ==
    IF Failed(Body) THEN Body
    ELSE PR(ForExprAST(IdName, Start, End, Step, Body.ast), Body.p, Body.bp)

\* ParseForExpr at the 'in', once Start, End and the optional Step are parsed.
ForIn(IdName, Start, End, Step, p, bp) ==
    IF Tok(p) # tok_in THEN Fail(p, bp)
    ELSE ForFinish(IdName, Start, End, Step, ParseExpression(p + 1, bp))

\* ParseForExpr after Step = ParseExpression().
ForStep(IdName, Start, End, Step) ==
    IF Failed(Step) THEN Step
    ELSE ForIn(IdName, Start, End, Step.ast, Step.p, Step.bp)

\* ParseForExpr after End = ParseExpression().
ForEnd(IdName, Start, End) ==
    IF Failed(End) THEN End
    ELSE IF IsCh(Tok(End.p), ",")
         THEN ForStep(IdName, Start, End.ast,
                      ParseExpression(End.p + 1, End.bp))
    ELSE ForIn(IdName, Start, End.ast, Null, End.p, End.bp)

\* ParseForExpr after Start = ParseExpression().
ForStart(IdName, Start) ==
    IF Failed(Start) THEN Start
    ELSE IF ~IsCh(Tok(Start.p), ",") THEN Fail(Start.p, Start.bp)
    ELSE ForEnd(IdName, Start.ast, ParseExpression(Start.p + 1, Start.bp))

ParseForExpr(p, bp) ==
    IF Tok(p + 1).t # "tok_identifier" THEN Fail(p + 1, bp)
    ELSE IF ~IsCh(Tok(p + 2), "=") THEN Fail(p + 2, bp)
    ELSE ForStart(Tok(p + 1).s, ParseExpression(p + 3, bp))

ParsePrimary(p, bp) ==
    CASE Tok(p).t = "tok_identifier" -> ParseIdentifierExpr(p, bp)
      [] Tok(p).t = "tok_number" -> ParseNumberExpr(p, bp)
      [] IsCh(Tok(p), "(") -> ParseParenExpr(p, bp)
      [] Tok(p).t = "tok_if" -> ParseIfExpr(p, bp)
      [] Tok(p).t = "tok_for" -> ParseForExpr(p, bp)
      [] OTHER -> Fail(p, bp)

\* ParseBinOpRHS: merge LHS/RHS and loop around.
BinOpMerge(ExprPrec, LHS, BinOp, RHS) ==
    IF Failed(RHS) THEN RHS
    ELSE ParseBinOpRHS(ExprPrec, BinaryExprAST(BinOp, LHS, RHS.ast),
                       RHS.p, RHS.bp)

\* BinOpPending with <= for <: equal precedence would group to the right.
BinOpPendingRightAssoc(ExprPrec, LHS, BinOp, TokPrec, RHS, N) ==
    BinOpMerge(ExprPrec, LHS, BinOp,
               IF TokPrec <= N.prec
               THEN ParseBinOpRHS(TokPrec, RHS.ast, RHS.p, N.bp)
               ELSE PR(RHS.ast, RHS.p, N.bp))

\* ParseBinOpRHS after NextPrec = GetTokPrecedence(): let the pending
\* operator take RHS as its LHS if it binds tighter.
BinOpPending(ExprPrec, LHS, BinOp, TokPrec, RHS, N) ==
    BinOpMerge(ExprPrec, LHS, BinOp,
               IF TokPrec < N.prec
               THEN ParseBinOpRHS(TokPrec + 1, RHS.ast, RHS.p, N.bp)
               ELSE PR(RHS.ast, RHS.p, N.bp))

\* ParseBinOpRHS after RHS = ParsePrimary().
BinOpRHS(ExprPrec, LHS, BinOp, TokPrec, RHS) ==
    IF Failed(RHS) THEN RHS
    ELSE BinOpPending(ExprPrec, LHS, BinOp, TokPrec, RHS,
                      GetTokPrecedence(RHS.p, RHS.bp))

\* BinOpStart that eats the token it stops at.
BinOpStartEatsToken(ExprPrec, LHS, p, T) ==
    IF T.prec < ExprPrec THEN PR(LHS, p + 1, T.bp)
    ELSE BinOpRHS(ExprPrec, LHS, Tok(p).s, T.prec, ParsePrimary(p + 1, T.bp))

\* ParseBinOpRHS after TokPrec = GetTokPrecedence().
BinOpStart(ExprPrec, LHS, p, T) ==
    IF T.prec < ExprPrec THEN PR(LHS, p, T.bp)
    ELSE BinOpRHS(ExprPrec, LHS, Tok(p).s, T.prec, ParsePrimary(p + 1, T.bp))

\* One turn of the while(true) loop per application.
ParseBinOpRHS(ExprPrec, LHS, p, bp) ==
    BinOpStart(ExprPrec, LHS, p, GetTokPrecedence(p, bp))

\* ParseExpression after LHS = ParsePrimary().
ExpressionRHS(LHS) ==
    IF Failed(LHS) THEN LHS
    ELSE ParseBinOpRHS(0, LHS.ast, LHS.p, LHS.bp)

ParseExpression(p, bp) == ExpressionRHS(ParsePrimary(p, bp))

\* while(getNextToken() == tok_identifier): p is the token just fetched.
ParseProtoArgs(p, ArgNames) ==
    IF Tok(p).t = "tok_identifier"
    THEN ParseProtoArgs(p + 1, Append(ArgNames, Tok(p).s))
    ELSE [args |-> ArgNames, p |-> p]

\* ParsePrototype after the argument names.
PrototypeClose(FnName, A, bp) ==
    IF ~IsCh(Tok(A.p), ")") THEN Fail(A.p, bp)
    ELSE PR(PrototypeAST(FnName, A.args), A.p + 1, bp)

ParsePrototype(p, bp) ==
    IF Tok(p).t # "tok_identifier" THEN Fail(p, bp)
    ELSE IF ~IsCh(Tok(p + 1), "(") THEN Fail(p + 1, bp)
    ELSE PrototypeClose(Tok(p).s, ParseProtoArgs(p + 2, << >>), bp)

\* ParseDefinition after E = ParseExpression().
DefinitionFinish(Proto, E) ==
    IF Failed(E) THEN E
    ELSE PR(FunctionAST(Proto.ast, E.ast), E.p, E.bp)

\* ParseDefinition after Proto = ParsePrototype().
DefinitionBody(Proto) ==
    IF Failed(Proto) THEN Proto
    ELSE DefinitionFinish(Proto, ParseExpression(Proto.p, Proto.bp))

ParseDefinition(p, bp) == DefinitionBody(ParsePrototype(p + 1, bp))

ParseExtern(p, bp) == ParsePrototype(p + 1, bp)

\* ParseTopLevelExpr after E = ParseExpression(): make an anonymous proto.
TopLevelFinish(E) ==
    IF Failed(E) THEN E
    ELSE PR(FunctionAST(PrototypeAST(AnonName, << >>), E.ast), E.p, E.bp)

ParseTopLevelExpr(p, bp) == TopLevelFinish(ParseExpression(p, bp))

-----
(* Code generator.  A compilation unit (llvm::Module) is the sequence of   *)
(* its functions; a function has a name unique in the unit, parameter      *)
(* names unique in the function, and a body or none (a declaration).       *)
(* `item` is the number of the top-level item whose processing created it. *)

Ev(e, n) == [e |-> e, n |-> n]

FnNames(mod) == {mod[i].name : i \in 1..Len(mod)}

\* The first number k >= 1 for which base, sep and k make a free name.
FreeSuffix(taken, base, sep) ==
    CHOOSE k \in 1..(Cardinality(taken) + 1) :
        /\ (base \o sep \o ToString(k)) \notin taken
        /\ \A j \in 1..(k - 1) : (base \o sep \o ToString(j)) \in taken

\* ValueSymbolTable: a name already taken gets a numeric suffix.
UniqueName(taken, base, sep) ==
    IF base \notin taken THEN base
    ELSE base \o sep \o ToString(FreeSuffix(taken, base, sep))

RECURSIVE SetArgNames(_, _)
\* for(auto &Arg : F->args()) Arg.setName(Args[Idx++])
SetArgNames(Args, done) ==
    IF Len(done) = Len(Args) THEN done
    ELSE SetArgNames(Args,
            Append(done, UniqueName({done[i] : i \in 1..Len(done)},
                                    Args[Len(done) + 1], "")))

\* Module::getFunction
ModuleGetFunction(mod, Name) ==
    IF Name \in FnNames(mod)
    THEN mod[CHOOSE i \in 1..Len(mod) : mod[i].name = Name]
    ELSE Null

\* Function::Create(FT, ExternalLinkage, Name, TheModule.get())
CreateFunction(name, args, item) ==
    [k |-> "function", name |-> name, args |-> args, defined |-> FALSE,
     item |-> item]

\* Created with the function left out of the unit.
CreatedDetached(F, mod) == [f |-> F, mod |-> mod]

\* The new function, and the unit with it.
Created(F, mod) == [f |-> F, mod |-> Append(mod, F)]

\* PrototypeAST::codegen
PrototypeCodegen(proto, mod, item) ==
    Created(CreateFunction(UniqueName(FnNames(mod), proto.name, "."),
                           SetArgNames(proto.args, << >>), item),
            mod)

\* getFunction after F = TheModule->getFunction(Name).
getFunctionFrom(F, Name, mod, protos, item) ==
    IF ~IsNull(F) THEN [f |-> F, mod |-> mod]
    ELSE IF Name \in DOMAIN protos
         THEN PrototypeCodegen(PrototypeAST(Name, protos[Name]), mod, item)
    ELSE [f |-> Null, mod |-> mod]

getFunction(Name, mod, protos, item) ==
    getFunctionFrom(ModuleGetFunction(mod, Name), Name, mod, protos, item)

\* std::map::operator[] on NamedValues: a missing name is inserted as null.
NamedLookup(nv, Name) ==
    IF Name \in DOMAIN nv THEN nv
    ELSE [x \in DOMAIN nv \cup {Name} |-> IF x = Name THEN Null ELSE nv[x]]

MapSet(m, key, val) ==
    [x \in DOMAIN m \cup {key} |-> IF x = key THEN val ELSE m[x]]

EmptyMap == [x \in {} |-> Null]

MapErase(m, key) == [x \in DOMAIN m \ {key} |-> m[x]]

CV(v, st) == [v |-> v, st |-> st]
LogErrorV(st, e, n) == CV(Null, [st EXCEPT !.ev = Append(@, Ev(e, n))])

\* The function under construction is the sequence bbs of its basic blocks
\* in creation order (a block is named by its index; inFn says whether it is
\* in the function's block list yet), ip is the builder's insert block and n
\* the number of instructions created.  A value is a constant, an argument
\* or the instruction that computes it.  Doubles are whole numbers here, and
\* an i1 is the constant 0 or 1.
Const(v) == [k |-> "const", v |-> v]
Inst(id) == [k |-> "inst", id |-> id]

\* a: the operands; t: the target blocks of a branch, the incoming blocks of
\* a PHI; nm: the callee of a call, the name of a PHI.
Instruction(id, op, a, t, nm) ==
    [id |-> id, op |-> op, a |-> a, t |-> t, nm |-> nm]

\* BasicBlock::Create(*TheContext, name[, TheFunction])
BasicBlock(name, inFn) == [name |-> name, ins |-> << >>, inFn |-> inFn]

AddBlocks(st, blocks) == [st EXCEPT !.bbs = @ \o blocks]

\* TheFunction->getBasicBlockList().push_back(BB)
PushBack(st, BB) == [st EXCEPT !.bbs[BB].inFn = TRUE]

\* Builder->SetInsertPoint(BB)
SetInsertPoint(st, BB) == [st EXCEPT !.ip = BB]

\* The builder appends an instruction to the insert block.
Insert(st, op, a, t, nm) ==
    CV(Inst(st.n + 1),
       [st EXCEPT !.bbs[st.ip].ins =
                      Append(@, Instruction(st.n + 1, op, a, t, nm)),
                  !.n = @ + 1])

\* Builder->CreateBr, Builder->CreateCondBr
CreateBr(st, BB) == Insert(st, "br", << >>, << BB >>, "").st
CreateCondBr(st, c, T, F) == Insert(st, "condbr", << c >>, << T, F >>, "").st

\* What an arithmetic or comparison instruction computes.
Arith(op, x, y) ==
    CASE op = "fadd" -> x + y
      [] op = "fsub" -> x - y
      [] op = "fmul" -> x * y
      [] op = "fcmp_ult" -> IF x < y THEN 1 ELSE 0
      [] op = "fcmp_one" -> IF x # y THEN 1 ELSE 0

\* Builder->CreateFAdd and the like: the builder's constant folder answers
\* for two constants, and no instruction is made.
CreateBinOp(op, x, y, st) ==
    IF x.k = "const" /\ y.k = "const" THEN CV(Const(Arith(op, x.v, y.v)), st)
    ELSE Insert(st, op, << x, y >>, << >>, "")

\* Builder->CreateUIToFP
CreateUIToFP(C) ==
    IF C.v.k = "const" THEN C
    ELSE Insert(C.st, "uitofp", << C.v >>, << >>, "")

RECURSIVE Codegen(_, _, _, _), CallArgsCodegen(_, _, _, _, _)

NumberCodegen(e, st) == CV(Const(e.v), st)

\* VariableExprAST::codegen after V = NamedValues[Name].
VariableValue(Name, st) ==
    IF IsNull(st.nv[Name]) THEN LogErrorV(st, "unknown_variable", Name)
    ELSE CV(st.nv[Name], st)

VariableCodegen(e, st) ==
    VariableValue(e.n, [st EXCEPT !.nv = NamedLookup(@, e.n)])

\* BinaryExprAST::codegen after L and R are generated.
BinaryOp(op, L, R) ==
    IF IsNull(L.v) \/ IsNull(R.v) THEN CV(Null, R.st)
    ELSE CASE op = "+" -> CreateBinOp("fadd", L.v, R.v, R.st)
           [] op = "-" -> CreateBinOp("fsub", L.v, R.v, R.st)
           [] op = "*" -> CreateBinOp("fmul", L.v, R.v, R.st)
           [] op = "<" ->
                CreateUIToFP(CreateBinOp("fcmp_ult", L.v, R.v, R.st))
           [] OTHER -> LogErrorV(R.st, "invalid_binary_operator", op)

\* BinaryExprAST::codegen after L = LHS->codegen(): R is generated whether
\* or not L is null.
BinaryRHS(e, L, protos, item) ==
    BinaryOp(e.op, L, Codegen(e.r, L.st, protos, item))

BinaryCodegen(e, st, protos, item) ==
    BinaryRHS(e, Codegen(e.l, st, protos, item), protos, item)

\* The argument loop of CallExprAst::codegen after ArgsV.push_back().
CallArgsNext2(Args, ArgsV, A, protos, item) ==
    IF IsNull(A.v) THEN CV(Null, A.st)
    ELSE CallArgsCodegen(Args, Append(ArgsV, A.v), A.st, protos, item)

\* The argument loop of CallExprAst::codegen; ArgsV holds the values so far.
CallArgsCodegen(Args, ArgsV, st, protos, item) ==
    IF Len(ArgsV) = Len(Args) THEN CV([k |-> "args", vs |-> ArgsV], st)
    ELSE CallArgsNext2(Args, ArgsV,
                       Codegen(Args[Len(ArgsV) + 1], st, protos, item),
                       protos, item)

\* CallExprAst::codegen after the argument loop: Builder->CreateCall.
CreateCall(F, A) ==
    IF IsNull(A.v) THEN A
    ELSE Insert([A.st EXCEPT !.ev = Append(@, Ev("call", F.name))],
                "call", A.v.vs, << >>, F.name)

\* The argument-count check after the argument loop instead of before it.
CallResolvedChecksLate(e, F, st, protos, item) ==
    IF IsNull(F) THEN LogErrorV(st, "unknown_function", e.callee)
    ELSE IF Len(F.args) # Len(e.args)
         THEN LogErrorV(CallArgsCodegen(e.args, << >>, st, protos, item).st,
                        "incorrect_arguments", e.callee)
    ELSE CreateCall(F, CallArgsCodegen(e.args, << >>, st, protos, item))

\* CallExprAst::codegen after CalleeF = getFunction(Callee).
CallResolved(e, F, st, protos, item) ==
    IF IsNull(F) THEN LogErrorV(st, "unknown_function", e.callee)
    ELSE IF Len(F.args) # Len(e.args)
         THEN LogErrorV(st, "incorrect_arguments", e.callee)
    ELSE CreateCall(F, CallArgsCodegen(e.args, << >>, st, protos, item))

\* The outcome of getFunction as the state the call goes on with.
CallLookup(e, G, st, protos, item) ==
    CallResolved(e, G.f,
                 [st EXCEPT !.mod = G.mod,
                            !.ev = Append(@, Ev(IF IsNull(G.f) THEN "unresolved"
                                                ELSE "resolved", e.callee))],
                 protos, item)

\* CallExprAst::codegen that looks the callee up in the current unit only.
CallCodegenModuleOnly(e, st, protos, item) ==
    CallLookup(e, getFunction(e.callee, st.mod, EmptyMap, item), st, protos,
               item)

CallCodegen(e, st, protos, item) ==
    CallLookup(e, getFunction(e.callee, st.mod, protos, item), st, protos,
               item)

\* IfExprAST::codegen after ElseV = Else->codegen(): branch to the merge
\* block, ElseBB = Builder->GetInsertBlock(), and the PHI node in the merge
\* block.
IfMerge(MergeBB, ThenBB, ThenV, ElseV) ==
    IF IsNull(ElseV.v) THEN ElseV
    ELSE Insert(SetInsertPoint(PushBack(CreateBr(ElseV.st, MergeBB), MergeBB),
                               MergeBB),
                "phi", << ThenV.v, ElseV.v >>, << ThenBB, ElseV.st.ip >>,
                "iftmp")

\* IfElseCodegen without ThenBB = Builder->GetInsertBlock(): the PHI names
\* the block the then branch started in.
IfElseCodegenStaleThenBB(e, MergeBB, ThenV, protos, item) ==
    IF IsNull(ThenV.v) THEN ThenV
    ELSE IfMerge(MergeBB, MergeBB - 2, ThenV,
                 Codegen(e.e,
                         SetInsertPoint(PushBack(CreateBr(ThenV.st, MergeBB),
                                                 MergeBB - 1), MergeBB - 1),
                         protos, item))

\* IfExprAST::codegen after ThenV = Then->codegen(): branch to the merge
\* block, ThenBB = Builder->GetInsertBlock(), and the else block (created
\* right before the merge block).
IfElseCodegen(e, MergeBB, ThenV, protos, item) ==
    IF IsNull(ThenV.v) THEN ThenV
    ELSE IfMerge(MergeBB, ThenV.st.ip, ThenV,
                 Codegen(e.e,
                         SetInsertPoint(PushBack(CreateBr(ThenV.st, MergeBB),
                                                 MergeBB - 1), MergeBB - 1),
                         protos, item))

\* IfExprAST::codegen after CondV is compared with 0.0: the three blocks,
\* the conditional branch and the then block.
IfBlocks(e, C, ThenBB, protos, item) ==
    IfElseCodegen(e, ThenBB + 2,
                  Codegen(e.t,
                          SetInsertPoint(
                              CreateCondBr(
                                  AddBlocks(C.st,
                                            << BasicBlock("then", TRUE),
                                               BasicBlock("Else", FALSE),
                                               BasicBlock("ifcont", FALSE) >>),
                                  C.v, ThenBB, ThenBB + 1),
                              ThenBB),
                          protos, item),
                  protos, item)

\* IfExprAST::codegen after CondV = Cond->codegen().
IfThenCodegen(e, CondV, protos, item) ==
    IF IsNull(CondV.v) THEN CondV
    ELSE IfBlocks(e, CreateBinOp("fcmp_one", CondV.v, Const(0), CondV.st),
                  Len(CondV.st.bbs) + 1, protos, item)

IfCodegen(e, st, protos, item) ==
    IfThenCodegen(e, Codegen(e.c, st, protos, item), protos, item)

\* ForAfter without the restore: the loop variable stays bound.
ForAfterKeepsBinding(VarName, OldVal, LoopBB, NextVar, C, AfterBB) ==
    CV(Const(0),
       [SetInsertPoint(CreateCondBr(AddBlocks(C.st,
                                        << BasicBlock("afterloop", TRUE) >>),
                                    C.v, LoopBB, AfterBB), AfterBB)
           EXCEPT !.bbs[LoopBB].ins[1].a = Append(@, NextVar),
                  !.bbs[LoopBB].ins[1].t = Append(@, C.st.ip)])

\* ForAfter with the body's value for the value of the loop.
ForAfterBodyValue(VarName, OldVal, LoopBB, NextVar, C, AfterBB) ==
    CV(NextVar,
       [SetInsertPoint(CreateCondBr(AddBlocks(C.st,
                                        << BasicBlock("afterloop", TRUE) >>),
                                    C.v, LoopBB, AfterBB), AfterBB)
           EXCEPT !.bbs[LoopBB].ins[1].a = Append(@, NextVar),
                  !.bbs[LoopBB].ins[1].t = Append(@, C.st.ip),
                  !.nv = IF ~IsNull(OldVal) THEN MapSet(@, VarName, OldVal)
                         ELSE MapErase(@, VarName)])

\* ForExprAST::codegen after the end condition is compared with 0.0: the
\* after-loop block, the conditional branch in LoopEndBB, the backedge entry
\* of the PHI node (the first instruction of LoopBB), the unshadowed
\* variable restored; the for expression is 0.0.
ForAfter(VarName, OldVal, LoopBB, NextVar, C, AfterBB) ==
    CV(Const(0),
       [SetInsertPoint(CreateCondBr(AddBlocks(C.st,
                                        << BasicBlock("afterloop", TRUE) >>),
                                    C.v, LoopBB, AfterBB), AfterBB)
           EXCEPT !.bbs[LoopBB].ins[1].a = Append(@, NextVar),
                  !.bbs[LoopBB].ins[1].t = Append(@, C.st.ip),
                  !.nv = IF ~IsNull(OldVal) THEN MapSet(@, VarName, OldVal)
                         ELSE MapErase(@, VarName)])

\* ForExprAST::codegen after EndCond = End->codegen().
ForRestore(VarName, OldVal, LoopBB, NextVar, EndCond) ==
    IF IsNull(EndCond.v) THEN EndCond
    ELSE ForAfter(VarName, OldVal, LoopBB, NextVar,
                  CreateBinOp("fcmp_one", EndCond.v, Const(0), EndCond.st),
                  Len(EndCond.st.bbs) + 1)

\* ForNext with the loop variable bound to NextVar while End is generated.
ForNextEndSeesNextVar(e, OldVal, LoopBB, NextVar, protos, item) ==
    ForRestore(e.v, OldVal, LoopBB, NextVar.v,
               Codegen(e.end, [NextVar.st EXCEPT !.nv = MapSet(@, e.v, NextVar.v)],
                       protos, item))

\* ForExprAST::codegen after NextVar = Builder->CreateFAdd(Variable, StepVal).
ForNext(e, OldVal, LoopBB, NextVar, protos, item) ==
    ForRestore(e.v, OldVal, LoopBB, NextVar.v,
               Codegen(e.end, NextVar.st, protos, item))

\* ForExprAST::codegen after StepVal is there.
ForEndCodegen(e, OldVal, Variable, LoopBB, StepVal, protos, item) ==
    IF IsNull(StepVal.v) THEN StepVal
    ELSE ForNext(e, OldVal, LoopBB,
                 CreateBinOp("fadd", Variable, StepVal.v, StepVal.st),
                 protos, item)

\* ForExprAST::codegen after Body->codegen().
ForStepCodegen(e, OldVal, Variable, LoopBB, Body, protos, item) ==
    IF IsNull(Body.v) THEN Body
    ELSE ForEndCodegen(e, OldVal, Variable, LoopBB,
                       IF IsNull(e.step) THEN CV(Const(1), Body.st)
                       ELSE Codegen(e.step, Body.st, protos, item),
                       protos, item)

\* ForExprAST::codegen at OldVal = NamedValues[VarName]; nv1 is the table
\* after that lookup, Variable the PHI node.
ForBind(e, Variable, nv1, LoopBB, st, protos, item) ==
    ForStepCodegen(e, nv1[e.v], Variable, LoopBB,
                   Codegen(e.body, [st EXCEPT !.nv = MapSet(nv1, e.v, Variable)],
                           protos, item),
                   protos, item)

\* ForExprAST::codegen after the PHI node is made in the loop block.
ForHeader(e, V, LoopBB, protos, item) ==
    ForBind(e, V.v, NamedLookup(V.st.nv, e.v), LoopBB, V.st, protos, item)

\* ForExprAST::codegen after StartVal = Start->codegen(): the loop block,
\* the fall through from the block current now (PreheadBB), and the PHI
\* node with its entry for Start.
ForLoop(e, StartVal, protos, item) ==
    IF IsNull(StartVal.v) THEN StartVal
    ELSE ForHeader(e,
                   Insert(SetInsertPoint(
                              CreateBr(AddBlocks(StartVal.st,
                                           << BasicBlock("loop", TRUE) >>),
                                       Len(StartVal.st.bbs) + 1),
                              Len(StartVal.st.bbs) + 1),
                          "phi", << StartVal.v >>, << StartVal.st.ip >>, e.v),
                   Len(StartVal.st.bbs) + 1, protos, item)

ForCodegen(e, st, protos, item) ==
    ForLoop(e, Codegen(e.start, st, protos, item), protos, item)

Codegen(e, st, protos, item) ==
    CASE e.k = "num" -> NumberCodegen(e, st)
      [] e.k = "var" -> VariableCodegen(e, st)
      [] e.k = "bin" -> BinaryCodegen(e, st, protos, item)
      [] e.k = "call" -> CallCodegen(e, st, protos, item)
      [] e.k = "if" -> IfCodegen(e, st, protos, item)
      [] e.k = "for" -> ForCodegen(e, st, protos, item)

\* RegisterProto as an insert that leaves an existing entry alone.
RegisterProtoKeepFirst(protos, proto) ==
    IF proto.name \in DOMAIN protos THEN protos
    ELSE MapSet(protos, proto.name, proto.args)

\* FunctionProtos[Proto->getName()] = std::move(Proto)
RegisterProto(protos, proto) == MapSet(protos, proto.name, proto.args)

\* eraseFromParent left out: the function stays in the unit, without body.
EraseFromParentKeeps(mod, name) == mod

\* Function::eraseFromParent
EraseFromParent(mod, name) == SelectSeq(mod, LAMBDA f : f.name # name)

\* The function has its body: it is a definition.
SetDefined(mod, name) ==
    [i \in 1..Len(mod) |->
        IF mod[i].name = name THEN [mod[i] EXCEPT !.defined = TRUE]
        ELSE mod[i]]

\* NamedValues.clear(); NamedValues[Arg.getName()] = &Arg for every argument.
ArgValues(F) ==
    [n \in {F.args[i] : i \in 1..Len(F.args)} |-> [k |-> "arg", n |-> n]]

\* FunctionAST::codegen after Body->codegen(): Builder->CreateRet(RetVal),
\* or the function erased from the unit.  bbs is the body of the function.
FunctionFinish(F, protos, B) ==
    [ok |-> ~IsNull(B.v), f |-> F.name, protos |-> protos,
     mod |-> IF ~IsNull(B.v) THEN SetDefined(B.st.mod, F.name)
             ELSE EraseFromParent(B.st.mod, F.name),
     nv |-> B.st.nv, ev |-> B.st.ev, entry |-> ArgValues(F),
     bbs |-> IF ~IsNull(B.v)
             THEN Insert(B.st, "ret", << B.v >>, << >>, "").st.bbs
             ELSE << >>]

\* FunctionAST::codegen after TheFunction = getFunction(P.getName()): the
\* entry block, the arguments in NamedValues, the body.
FunctionBody(fn, protos, G, nv, item) ==
    IF IsNull(G.f)
    THEN [ok |-> FALSE, f |-> fn.proto.name, protos |-> protos,
          mod |-> G.mod, nv |-> nv, ev |-> << >>, entry |-> nv,
          bbs |-> << >>]
    ELSE FunctionFinish(G.f, protos,
                        Codegen(fn.body,
                                [mod |-> G.mod, nv |-> ArgValues(G.f),
                                 ev |-> << >>,
                                 bbs |-> << BasicBlock("entry", TRUE) >>,
                                 ip |-> 1, n |-> 0],
                                protos, item))

\* FunctionAST::codegen after the prototype is in FunctionProtos.
FunctionResolve(fn, protos, mod, nv, item) ==
    FunctionBody(fn, protos, getFunction(fn.proto.name, mod, protos, item),
                 nv, item)

\* The registry as it was before, when the function failed.
RollBack(C, protos) == IF C.ok THEN C ELSE [C EXCEPT !.protos = protos]

\* FunctionCodegen that takes the prototype out of the registry again when
\* the body fails.
FunctionCodegenRollsBack(fn, protos, mod, nv, item) ==
    RollBack(FunctionResolve(fn, RegisterProto(protos, fn.proto), mod, nv,
                             item), protos)

\* FunctionAST::codegen (the RECALL variant, which the build compiles).
FunctionCodegen(fn, protos, mod, nv, item) ==
    FunctionResolve(fn, RegisterProto(protos, fn.proto), mod, nv, item)

-----
(* Session driver. *)

\* main(): the standard binary operators.
DefaultBinopPrecedence ==
    [c \in {"<", ">", "+", "-", "/", "*"} |->
        CASE c \in {"<", ">"} -> 10
          [] c \in {"+", "-"} -> 20
          [] OTHER -> 40]

\* The pieces of source text the sessions are put together from.
Phrases ==
    { << tok_def, Id("f"), Ch("("), Id("x"), Ch(")"), Id("x") >>,
      << tok_def, Id("f"), Ch("("), Id("x"), Ch(")"), Id("y") >>,
      << tok_def, Id("h"), Ch("("), Id("a"), Ch(")"),
         Id("g"), Ch("("), Id("a"), Ch(")") >>,
      << tok_extern, Id("g"), Ch("("), Id("x"), Ch(")") >>,
      << tok_extern, Id("g"), Ch("("), Id("x"), Id("y"), Ch(")") >>,
      << Id("g"), Ch("("), Num(1), Ch(")") >>,
      << Num(1), Ch("+"), Num(2) >>,
      << Num(1), Ch("/"), Num(2) >>,
      << Id("f"), Ch("("), Num(1), Ch(","), Num(2), Ch(")") >>,
      << tok_if, Num(1), tok_then, Num(2), tok_else,
         Id("g"), Ch("("), Num(3), Ch(")") >>,
      << tok_for, Id("i"), Ch("="), Num(1), Ch(","), Id("i"), Ch("<"), Num(3),
         tok_in, Id("i") >>,
      << tok_if, Num(1), tok_else >>,
      << tok_def, Ch("(") >>,
      << tok_extern, Ch(")") >>,
      << Ch(")") >>,
      << Ch(";") >>,
      << tok_def >> }

RECURSIVE Sessions(_)
\* The inputs made of at most n phrases.
Sessions(n) ==
    IF n = 0 THEN { << >> }
    ELSE LET S == Sessions(n - 1)
         IN  S \cup { s \o ph : s \in S, ph \in Phrases }

\* No character read yet: static int LastChar = ' '.
NothingRead ==
    /\ stdin = << >>
    /\ LastChar = " "
    /\ nread = 0
    /\ toks = << >>

Init ==
    /\ input \in Sessions(MaxItems)
    /\ pos = 0
    /\ CurTok = Tok(0)
    /\ BinopPrecedence = DefaultBinopPrecedence
    /\ FunctionProtos = EmptyMap
    /\ TheModule = << >>
    /\ NamedValues = EmptyMap
    /\ TheJIT = << >>
    /\ pc = "awaiting"
    /\ ev = << >>
    /\ unitNo = 1
    /\ hist = << >>
    /\ result = Null
    /\ NothingRead
    /\ run = Null

\* The record of one top-level item: what was parsed, where the parser
\* stopped, whether code generation succeeded, the unit it went into and
\* what that unit held when the item's code generation ended.
Item(kind, R, name, args, generated, fns) ==
    [kind |-> kind, parsed |-> R.ok, stop |-> R.p, name |-> name,
     args |-> args, generated |-> generated, unit |-> unitNo, fns |-> fns]

\* A unit as the backend holds it.
Unit(mod, tracked) ==
    [id |-> unitNo, fns |-> mod, tracked |-> tracked, item |-> Len(hist) + 1]

\* getNextToken() p - pos times
Advance(p) ==
    /\ pos' = p
    /\ CurTok' = Tok(p)

\* InitializeModule that goes on with the unit just handed over.
InitializeModuleKeepsUnit ==
    /\ TheModule' = TheModule
    /\ unitNo' = unitNo

\* InitializeModule
InitializeModule ==
    /\ TheModule' = << >>
    /\ unitNo' = unitNo + 1

\* case ';'
HandleSemicolon ==
    /\ pc = "awaiting"
    /\ IsCh(CurTok, ";")
    /\ Advance(pos + 1)
    /\ ev' = << Ev("skip", ";") >>
    /\ UNCHANGED << aux, input, BinopPrecedence, FunctionProtos, TheModule,
                    NamedValues, TheJIT, pc, unitNo, hist, result >>

\* case tok_eof
HandleEof ==
    /\ pc = "awaiting"
    /\ CurTok = tok_eof
    /\ pc' = "done"
    /\ ev' = << Ev("print_module", "") >>
    /\ UNCHANGED << aux, input, pos, CurTok, BinopPrecedence, FunctionProtos,
                    TheModule, NamedValues, TheJIT, unitNo, hist, result >>

\* ParseError without the getNextToken(): the offending token stays current.
ParseErrorNoSkip(kind, R) ==
    /\ Advance(R.p)
    /\ BinopPrecedence' = R.bp
    /\ ev' = << Ev("parse_error", kind) >>
    /\ hist' = Append(hist, Item(kind, R, "", << >>, FALSE, TheModule))
    /\ UNCHANGED << aux, input, FunctionProtos, TheModule, NamedValues, TheJIT,
                    pc, unitNo, result >>

\* The else branch of the three handlers: skip a token for error recovery.
ParseError(kind, R) ==
    /\ Advance(R.p + 1)
    /\ BinopPrecedence' = R.bp
    /\ ev' = << Ev("parse_error", kind) >>
    /\ hist' = Append(hist, Item(kind, R, "", << >>, FALSE, TheModule))
    /\ UNCHANGED << aux, input, FunctionProtos, TheModule, NamedValues, TheJIT,
                    pc, unitNo, result >>

DefinitionParseError ==
    /\ pc = "awaiting"
    /\ CurTok = tok_def
    /\ \E R \in {ParseDefinition(pos, BinopPrecedence)} :
           Failed(R) /\ ParseError("def", R)

\* ParseDefinition and codegen succeed: the unit goes to the backend.
DefinitionOk ==
    /\ pc = "awaiting"
    /\ CurTok = tok_def
    /\ \E R \in {ParseDefinition(pos, BinopPrecedence)} :
           /\ ~Failed(R)
           /\ \E C \in {FunctionCodegen(R.ast, FunctionProtos, TheModule,
                                        NamedValues, Len(hist) + 1)} :
               /\ C.ok
               /\ Advance(R.p)
               /\ BinopPrecedence' = R.bp
               /\ FunctionProtos' = C.protos
               /\ NamedValues' = C.nv
               /\ TheJIT' = Append(TheJIT, Unit(C.mod, FALSE))
               /\ InitializeModule
               /\ ev' = C.ev \o << Ev("print", C.f), Ev("addModule", C.f) >>
               /\ hist' = Append(hist, Item("def", R, R.ast.proto.name,
                                            R.ast.proto.args, TRUE, C.mod))
               /\ UNCHANGED << aux, input, pc, result >>

\* codegen returns nullptr and IR->print dereferences it: undefined
\* behaviour.  The process dies there, or print comes back and the handler
\* goes on to addModule and InitializeModule.
DefinitionNullIR ==
    /\ pc = "awaiting"
    /\ CurTok = tok_def
    /\ \E R \in {ParseDefinition(pos, BinopPrecedence)} :
           /\ ~Failed(R)
           /\ \E C \in {FunctionCodegen(R.ast, FunctionProtos, TheModule,
                                        NamedValues, Len(hist) + 1)} :
               /\ ~C.ok
               /\ Advance(R.p)
               /\ BinopPrecedence' = R.bp
               /\ FunctionProtos' = C.protos
               /\ NamedValues' = C.nv
               /\ hist' = Append(hist, Item("def", R, R.ast.proto.name,
                                            R.ast.proto.args, FALSE, C.mod))
               /\ \/ /\ pc' = "crashed"
                     /\ TheModule' = C.mod
                     /\ ev' = C.ev \o << Ev("null_deref", C.f) >>
                     /\ UNCHANGED << TheJIT, unitNo >>
                  \/ /\ pc' = pc
                     /\ TheJIT' = Append(TheJIT, Unit(C.mod, FALSE))
                     /\ InitializeModule
                     /\ ev' = C.ev \o << Ev("null_deref", C.f),
                                         Ev("addModule", C.f) >>
               /\ UNCHANGED << aux, input, result >>

HandleDefinition == DefinitionParseError \/ DefinitionOk \/ DefinitionNullIR

ExternParseError ==
    /\ pc = "awaiting"
    /\ CurTok = tok_extern
    /\ \E R \in {ParseExtern(pos, BinopPrecedence)} :
           Failed(R) /\ ParseError("extern", R)

ExternOk ==
    /\ pc = "awaiting"
    /\ CurTok = tok_extern
    /\ \E R \in {ParseExtern(pos, BinopPrecedence)} :
           /\ ~Failed(R)
           /\ \E G \in {PrototypeCodegen(R.ast, TheModule, Len(hist) + 1)} :
               /\ Advance(R.p)
               /\ BinopPrecedence' = R.bp
               /\ TheModule' = G.mod
               /\ FunctionProtos' = RegisterProto(FunctionProtos, R.ast)
               /\ ev' = << Ev("print", G.f.name) >>
               /\ hist' = Append(hist, Item("extern", R, R.ast.name, R.ast.args,
                                            TRUE, G.mod))
               /\ UNCHANGED << aux, input, NamedValues, TheJIT, pc, unitNo, result >>

HandleExtern == ExternParseError \/ ExternOk

IsTopLevelExprTok ==
    /\ CurTok # tok_eof
    /\ ~IsCh(CurTok, ";")
    /\ CurTok # tok_def
    /\ CurTok # tok_extern

TopLevelParseError ==
    /\ pc = "awaiting"
    /\ IsTopLevelExprTok
    /\ \E R \in {ParseTopLevelExpr(pos, BinopPrecedence)} :
           Failed(R) /\ ParseError("expr", R)

\* The anonymous function is generated, added under a resource tracker,
\* looked up, called, and its unit removed again.
TopLevelOk ==
    /\ pc = "awaiting"
    /\ IsTopLevelExprTok
    /\ \E R \in {ParseTopLevelExpr(pos, BinopPrecedence)} :
           /\ ~Failed(R)
           /\ \E C \in {FunctionCodegen(R.ast, FunctionProtos, TheModule,
                                        NamedValues, Len(hist) + 1)} :
               /\ C.ok
               /\ Advance(R.p)
               /\ BinopPrecedence' = R.bp
               /\ FunctionProtos' = C.protos
               /\ NamedValues' = C.nv
               /\ TheJIT' = TheJIT
               /\ InitializeModule
               /\ ev' = C.ev \o << Ev("print", C.f), Ev("addModule", C.f),
                                   Ev("lookup", AnonName), Ev("invoke", AnonName),
                                   Ev("print_result", AnonName),
                                   Ev("remove", C.f) >>
               /\ hist' = Append(hist, Item("expr", R, AnonName, << >>, TRUE,
                                            C.mod))
               /\ UNCHANGED << aux, input, pc, result >>

\* codegen returns nullptr and IR->print dereferences it: the process dies
\* there, or the unit without the anonymous function is added, the lookup of
\* __anon_expr fails and ExitOnErr ends the process.
TopLevelNullIR ==
    /\ pc = "awaiting"
    /\ IsTopLevelExprTok
    /\ \E R \in {ParseTopLevelExpr(pos, BinopPrecedence)} :
           /\ ~Failed(R)
           /\ \E C \in {FunctionCodegen(R.ast, FunctionProtos, TheModule,
                                        NamedValues, Len(hist) + 1)} :
               /\ ~C.ok
               /\ Advance(R.p)
               /\ BinopPrecedence' = R.bp
               /\ FunctionProtos' = C.protos
               /\ NamedValues' = C.nv
               /\ hist' = Append(hist, Item("expr", R, AnonName, << >>, FALSE,
                                            C.mod))
               /\ \/ /\ pc' = "crashed"
                     /\ TheModule' = C.mod
                     /\ ev' = C.ev \o << Ev("null_deref", C.f) >>
                     /\ UNCHANGED << TheJIT, unitNo >>
                  \/ /\ pc' = "exited"
                     /\ TheJIT' = Append(TheJIT, Unit(C.mod, TRUE))
                     /\ InitializeModule
                     /\ ev' = C.ev \o << Ev("null_deref", C.f),
                                         Ev("addModule", C.f),
                                         Ev("lookup", AnonName) >>
               /\ UNCHANGED << aux, input, result >>

HandleTopLevelExpression ==
    TopLevelParseError \/ TopLevelOk \/ TopLevelNullIR

\* Mainloop: one turn of the while(true) loop.
Next ==
    \/ HandleEof
    \/ HandleSemicolon
    \/ HandleDefinition
    \/ HandleExtern
    \/ HandleTopLevelExpression

Spec == Init /\ [][Next]_vars

-----------------------------------------------------------------------------
(* ParseExpression on its own: the inputs are the token sequences          *)
(* operand (operator operand)* with at most MaxOps operators of the        *)
(* default table; operand i is the number i.                               *)

BinaryOperators == {"<", ">", "+", "-", "*", "/"}

RECURSIVE OperandSequences(_)
\* The sequences with exactly n operators.
OperandSequences(n) ==
    IF n = 0 THEN { << Num(1) >> }
    ELSE { s \o << Ch(o), Num(n + 1) >> :
              s \in OperandSequences(n - 1), o \in BinaryOperators }

InitExpr ==
    /\ input \in UNION { OperandSequences(n) : n \in 0..MaxOps }
    /\ pos = 1
    /\ CurTok = Tok(1)
    /\ BinopPrecedence = DefaultBinopPrecedence
    /\ FunctionProtos = EmptyMap
    /\ TheModule = << >>
    /\ NamedValues = EmptyMap
    /\ TheJIT = << >>
    /\ pc = "expression"
    /\ ev = << >>
    /\ unitNo = 1
    /\ hist = << >>
    /\ result = Null
    /\ NothingRead
    /\ run = Null

\* ParseExpression() with the first token current.
ParseExpressionStep ==
    /\ pc = "expression"
    /\ \E R \in {ParseExpression(pos, BinopPrecedence)} :
           /\ result' = R
           /\ Advance(R.p)
           /\ BinopPrecedence' = R.bp
    /\ pc' = "parsed"
    /\ UNCHANGED << aux, input, FunctionProtos, TheModule, NamedValues, TheJIT,
                    ev, unitNo, hist >>

NextExpr == ParseExpressionStep

SpecExpr == InitExpr /\ [][NextExpr]_vars

-----------------------------------------------------------------------------
(* C4.  The grouping the claim describes, computed without the parser: an  *)
(* expression splits at its loosest operator, and among several loosest    *)
(* ones at the last, so that equal precedence groups left to right.        *)

ClaimedPrecedence(c) ==
    CASE c \in {"<", ">"} -> 10
      [] c \in {"+", "-"} -> 20
      [] c \in {"*", "/"} -> 40

OperatorPositions(s) == { j \in 1..Len(s) : j % 2 = 0 }

SplitPosition(s) ==
    CHOOSE k \in OperatorPositions(s) :
        \A j \in OperatorPositions(s) :
            \/ ClaimedPrecedence(s[j].s) > ClaimedPrecedence(s[k].s)
            \/ ClaimedPrecedence(s[j].s) = ClaimedPrecedence(s[k].s) /\ j <= k

RECURSIVE Grouped(_)
GroupedAt(s, k) ==
    BinaryExprAST(s[k].s, Grouped(SubSeq(s, 1, k - 1)),
                  Grouped(SubSeq(s, k + 1, Len(s))))

Grouped(s) ==
    IF Len(s) = 1 THEN NumberExprAST(s[1].v)
    ELSE GroupedAt(s, SplitPosition(s))

\* C4: ParseExpression consumes the whole operand-operator sequence and
\* builds the tree in which higher precedence binds tighter and equal
\* precedence groups left to right.
C4_PrecedenceClimbing ==
    pc = "parsed" =>
        /\ result.ok
        /\ result.p = Len(input) + 1
        /\ CurTok = tok_eof
        /\ result.ast = Grouped(input)

\* 1 - 2 * 3 - 4 has been parsed as (1 - (2 * 3)) - 4.
C4_Witness ==
    /\ pc = "parsed"
    /\ input = << Num(1), Ch("-"), Num(2), Ch("*"), Num(3), Ch("-"), Num(4) >>
    /\ result.ast =
         BinaryExprAST("-",
            BinaryExprAST("-", NumberExprAST(1),
               BinaryExprAST("*", NumberExprAST(2), NumberExprAST(3))),
            NumberExprAST(4))

-----------------------------------------------------------------------------
(* Claims about the session driver, checked under Spec. *)

LastItem == hist[Len(hist)]

\* The step just taken processed a top-level item.
ItemStep == Len(hist') = Len(hist) + 1

HasEvent(events, e) == \E i \in 1..Len(events) : events[i].e = e

\* The last step dereferenced the null result of a failed code generation.
NullDerefStep == HasEvent(ev, "null_deref")

\* C1: the driver loop stops only by seeing end of input at the top of the
\* loop; after a code-generation error it is back at awaiting-item.
C1_OnlyEofStops ==
    /\ pc # "awaiting" => pc = "done" /\ CurTok = tok_eof
    /\ NullDerefStep => pc = "awaiting"

\* C2: when code generation of a def or top-level expression fails, no unit
\* is handed to the backend and no anonymous function is looked up or called.
C2_FailedItemNotLinked ==
    NullDerefStep =>
        /\ ~HasEvent(ev, "addModule")
        /\ ~HasEvent(ev, "lookup")
        /\ ~HasEvent(ev, "invoke")
        /\ \A i \in 1..Len(TheJIT) : TheJIT[i].item # Len(hist)

\* C3: a parse failure of a def, an extern or a top-level expression
\* discards exactly the token current at the point of failure and leaves the
\* driver at awaiting-item with the registry, the current unit and the units
\* in the backend unchanged.
C3_ParseFailureResync ==
    [][ (ItemStep /\ ~LastItem'.parsed) =>
            /\ pos' = LastItem'.stop + 1
            /\ CurTok' = Tok(LastItem'.stop + 1)
            /\ pc' = "awaiting"
            /\ FunctionProtos' = FunctionProtos
            /\ TheModule' = TheModule
            /\ unitNo' = unitNo
            /\ TheJIT' = TheJIT ]_vars

\* A def failed to parse after an extern left a declaration in the current
\* unit and a def left a unit in the backend.
C3_Witness ==
    /\ Len(hist) = 3
    /\ LastItem.kind = "def"
    /\ ~LastItem.parsed
    /\ HasEvent(ev, "parse_error")
    /\ TheModule # << >>
    /\ TheJIT # << >>
    /\ DOMAIN FunctionProtos # {}
    /\ pos = Len(input) + 1

\* The callee names the last step resolved (or failed to resolve).
Resolved(events) ==
    { events[i].n : i \in { j \in 1..Len(events) : events[j].e = "resolved" } }
Unresolved(events) ==
    { events[i].n : i \in { j \in 1..Len(events) : events[j].e = "unresolved" } }

\* The function named n in the unit fns is a declaration made by item i from
\* the parameter list args.
IsDeclarationFrom(fns, n, args, i) ==
    /\ n \in FnNames(fns)
    /\ ModuleGetFunction(fns, n).args = args
    /\ ~ModuleGetFunction(fns, n).defined
    /\ ModuleGetFunction(fns, n).item = i

\* C5: a call to a name an earlier item put in the registry resolves in every
\* later unit; when the unit had no function of that name, a declaration is
\* generated into it from the registry entry.
C5_RegistryResolves ==
    [][ ItemStep =>
            \A n \in DOMAIN FunctionProtos :
                /\ n \notin Unresolved(ev')
                /\ ( /\ n \in Resolved(ev')
                     /\ n # LastItem'.name
                     /\ n \notin FnNames(TheModule) )
                   => IsDeclarationFrom(LastItem'.fns, n, FunctionProtos[n],
                                        Len(hist')) ]_vars

\* extern g(x), then a def that closes the unit, then g(1) in the next unit:
\* the call resolved and the unit got its own declaration of g.
C5_Witness ==
    /\ Len(hist) = 3
    /\ hist[1].kind = "extern" /\ hist[1].parsed /\ hist[1].name = "g"
    /\ hist[2].kind = "def" /\ hist[2].generated
    /\ LastItem.kind = "expr" /\ LastItem.generated
    /\ LastItem.unit > hist[1].unit
    /\ "g" \in Resolved(ev)
    /\ IsDeclarationFrom(LastItem.fns, "g", hist[1].args, 3)

\* The items that wrote the registry entry of n: the parsed defs and externs
\* of that name (a top-level expression is the def of the anonymous function).
Writers(n) == { i \in 1..Len(hist) : hist[i].parsed /\ hist[i].name = n }

RegistryIsLastWrite ==
    /\ DOMAIN FunctionProtos = { hist[i].name : i \in { j \in 1..Len(hist) :
                                                          hist[j].parsed } }
    /\ \A n \in DOMAIN FunctionProtos :
           \E i \in Writers(n) :
               /\ \A j \in Writers(n) : j <= i
               /\ FunctionProtos[n] = hist[i].args

\* C6: registry entries are never removed, and an entry holds the parameter
\* list of the most recent successfully parsed def or extern of its name.
C6_RegistryLastWriteWins ==
    [][ /\ DOMAIN FunctionProtos \subseteq DOMAIN FunctionProtos'
        /\ RegistryIsLastWrite' ]_vars

\* Two externs of one name with different parameter lists: the entry is the
\* second list.
C6_Witness ==
    /\ Len(hist) >= 2
    /\ hist[1].kind = "extern" /\ hist[1].parsed
    /\ hist[2].kind = "extern" /\ hist[2].parsed
    /\ hist[1].name = hist[2].name
    /\ hist[1].args # hist[2].args
    /\ FunctionProtos[hist[2].name] = hist[2].args

\* C7: at awaiting-item the units loaded in the backend are exactly the units
\* handed over by successful defs.
C7_OnlyDefUnitsLoaded ==
    pc = "awaiting" =>
        /\ \A i \in 1..Len(TheJIT) :
               /\ hist[TheJIT[i].item].kind = "def"
               /\ hist[TheJIT[i].item].generated
               /\ ~TheJIT[i].tracked
        /\ \A k \in 1..Len(hist) :
               (hist[k].kind = "def" /\ hist[k].generated)
                   => \E i \in 1..Len(TheJIT) : TheJIT[i].item = k

\* The units of the successful defs.
DefUnits ==
    { i \in 1..Len(TheJIT) :
          hist[TheJIT[i].item].kind = "def" /\ hist[TheJIT[i].item].generated }

\* C8 as stated: the unit a successful def moves into the backend holds that
\* function and nothing else.
C8_UnitHoldsOnlyTheFunction ==
    \A i \in DefUnits :
        /\ Len(TheJIT[i].fns) = 1
        /\ TheJIT[i].fns[1].name = hist[TheJIT[i].item].name
        /\ TheJIT[i].fns[1].defined

DefinedNames(fns) == { fns[j].name : j \in { x \in 1..Len(fns) : fns[x].defined } }

\* C8 amended: the unit a successful def moves into the backend holds the
\* definition of that function as its only definition, anything else in it
\* being a declaration, and the current unit afterwards is a new empty unit.
C8_UnitDefinesOnlyTheFunction ==
    [][ (ItemStep /\ LastItem'.kind = "def" /\ LastItem'.generated) =>
            /\ Len(TheJIT') = Len(TheJIT) + 1
            /\ TheJIT'[Len(TheJIT')].id = unitNo
            /\ TheJIT'[Len(TheJIT')].fns = LastItem'.fns
            /\ DefinedNames(LastItem'.fns) = { LastItem'.name }
            /\ Cardinality({ j \in 1..Len(LastItem'.fns) :
                                 LastItem'.fns[j].defined }) = 1
            /\ TheModule' = << >>
            /\ unitNo' = unitNo + 1 ]_vars

\* A successful def whose unit holds a declaration next to the definition.
C8_Witness ==
    /\ Len(hist) >= 2
    /\ LastItem.kind = "def" /\ LastItem.generated
    /\ HasEvent(ev, "addModule")
    /\ Len(TheJIT[Len(TheJIT)].fns) = 2
    /\ TheModule = << >>

\* The top-level items that put a function into the unit fns.
Contributors(fns) == { fns[j].item : j \in 1..Len(fns) }

\* C9 as stated: no unit receives generated code from more than one item.
C9_OneItemPerUnit ==
    /\ Cardinality(Contributors(TheModule)) <= 1
    /\ \A i \in 1..Len(TheJIT) : Cardinality(Contributors(TheJIT[i].fns)) <= 1

\* C9 amended: a unit receives generated code from at most one def or
\* top-level expression, which closes it; before that, it collects the
\* declarations of the externs processed since it was opened.
C9_OneClosingItemPerUnit ==
    /\ \A k \in 1..Len(hist) :
           \A i \in Contributors(hist[k].fns) :
               i = k \/ (hist[i].kind = "extern" /\ hist[i].unit = hist[k].unit)
    /\ \A i \in 1..Len(TheJIT) :
           /\ TheJIT[i].fns = hist[TheJIT[i].item].fns
           /\ TheJIT[i].id = hist[TheJIT[i].item].unit
           /\ hist[TheJIT[i].item].kind # "extern"
           /\ \A j \in 1..Len(TheJIT) : TheJIT[j].id = TheJIT[i].id => j = i
    /\ pc = "awaiting" =>
           \A i \in Contributors(TheModule) :
               hist[i].kind = "extern" /\ hist[i].unit = unitNo

\* A unit in the backend holds the declaration of an extern and the
\* definition of the def that closed it.
C9_Witness ==
    \E i \in 1..Len(TheJIT) :
        /\ Cardinality(Contributors(TheJIT[i].fns)) = 2
        /\ hist[TheJIT[i].item].kind = "def"
        /\ hist[TheJIT[i].item].generated

\* C10: a successfully parsed extern hands nothing to the backend and keeps
\* the current unit open; it adds its declaration to that unit and writes its
\* prototype to the registry, and nothing else.
C10_ExternFrame ==
    [][ (ItemStep /\ LastItem'.kind = "extern" /\ LastItem'.parsed) =>
            /\ TheJIT' = TheJIT
            /\ unitNo' = unitNo
            /\ pc' = pc
            /\ NamedValues' = NamedValues
            /\ BinopPrecedence' = BinopPrecedence
            /\ Len(TheModule') = Len(TheModule) + 1
            /\ LastItem'.name \notin FnNames(TheModule)
                   => TheModule'[Len(TheModule')].name = LastItem'.name
            /\ SubSeq(TheModule', 1, Len(TheModule)) = TheModule
            /\ ~TheModule'[Len(TheModule')].defined
            /\ Len(TheModule'[Len(TheModule')].args) = Len(LastItem'.args)
            /\ TheModule'[Len(TheModule')].item = Len(hist')
            /\ DOMAIN FunctionProtos' = DOMAIN FunctionProtos \cup {LastItem'.name}
            /\ FunctionProtos'[LastItem'.name] = LastItem'.args
            /\ \A n \in DOMAIN FunctionProtos \ {LastItem'.name} :
                   FunctionProtos'[n] = FunctionProtos[n] ]_vars

\* An extern was processed while a unit was loaded in the backend and the
\* registry held another name.
C10_Witness ==
    /\ Len(hist) >= 2
    /\ LastItem.kind = "extern" /\ LastItem.parsed
    /\ HasEvent(ev, "print")
    /\ TheJIT # << >>
    /\ Cardinality(DOMAIN FunctionProtos) >= 2
    /\ TheModule # << >>
    /\ TheModule[Len(TheModule)].item = Len(hist)

-----------------------------------------------------------------------------
(* ParseExpression followed by a token that is no binary operator: the     *)
(* operand-operator sequences of SpecExpr, then one token that is a        *)
(* keyword, a category tag or a character without positive precedence, and *)
(* possibly more input behind it.                                          *)

NonOperators ==
    { tok_then, tok_else, tok_in, tok_def, tok_extern, tok_if, tok_for,
      Id("x"), Num(0), Ch(")"), Ch(","), Ch(";"), Ch("="), Ch("(") }

Followers == { << >>, << Num(0) >>, << Ch("+"), Num(0) >> }

InitTail ==
    /\ input \in { s \o << t >> \o f :
                     s \in UNION { OperandSequences(n) : n \in 0..MaxOps },
                     t \in NonOperators, f \in Followers }
                 \cup UNION { OperandSequences(n) : n \in 0..MaxOps }
    /\ pos = 1
    /\ CurTok = Tok(1)
    /\ BinopPrecedence = DefaultBinopPrecedence
    /\ FunctionProtos = EmptyMap
    /\ TheModule = << >>
    /\ NamedValues = EmptyMap
    /\ TheJIT = << >>
    /\ pc = "expression"
    /\ ev = << >>
    /\ unitNo = 1
    /\ hist = << >>
    /\ result = Null
    /\ NothingRead
    /\ run = Null

SpecTail == InitTail /\ [][NextExpr]_vars

\* The operand-operator sequence the input starts with.
RECURSIVE OperandPrefix(_, _)
OperandPrefix(s, n) ==
    IF /\ n + 2 <= Len(s)
       /\ s[n + 1].t = "char" /\ s[n + 1].s \in BinaryOperators
       /\ s[n + 2].t = "tok_number"
    THEN OperandPrefix(s, n + 2)
    ELSE SubSeq(s, 1, n)

\* C20: when the token after the operands and operators parsed so far is a
\* keyword, a category tag or a character without positive precedence,
\* ParseBinOpRHS returns the tree of what came before and that token stays
\* the current token.
C20_StopsAtNonOperator ==
    pc = "parsed" =>
        /\ result.ok
        /\ result.ast = Grouped(OperandPrefix(input, 1))
        /\ pos = Len(OperandPrefix(input, 1)) + 1
        /\ CurTok = Tok(Len(OperandPrefix(input, 1)) + 1)

\* 1 + 2 * 3 then ...: the parser stopped with `then` current, inside the
\* recursion for the operand of +.
C20_Witness ==
    /\ pc = "parsed"
    /\ Len(input) >= 6
    /\ input[2] = Ch("+") /\ input[4] = Ch("*")
    /\ input[6] = tok_then
    /\ CurTok = tok_then
    /\ result.ast = BinaryExprAST("+", NumberExprAST(1),
                       BinaryExprAST("*", NumberExprAST(2), NumberExprAST(3)))

\* C14: the operator table holds the six default entries and is never
\* extended.
C14_TableNeverExtended ==
    /\ DOMAIN BinopPrecedence = {"<", ">", "+", "-", "*", "/"}
    /\ BinopPrecedence = DefaultBinopPrecedence

-----------------------------------------------------------------------------
(* The lexer on its own: standard input is any text of at most MaxChars    *)
(* characters, and gettok() is called again and again, up to MaxEofs times *)
(* after the end of the input.                                             *)

Chars == Letters \cup Digits \cup {".", "#", " ", "\n", "\r", "+"}

RECURSIVE Texts(_)
\* The texts of at most n characters.
Texts(n) ==
    IF n = 0 THEN { << >> }
    ELSE LET T == Texts(n - 1)
         IN  T \cup { Append(t, c) : t \in { u \in T : Len(u) = n - 1 },
                                     c \in Chars }

InitLex ==
    /\ input \in Texts(MaxChars)
    /\ stdin = input
    /\ LastChar = " "
    /\ nread = 0
    /\ toks = << >>
    /\ pos = 0
    /\ CurTok = Tok(0)
    /\ BinopPrecedence = DefaultBinopPrecedence
    /\ FunctionProtos = EmptyMap
    /\ TheModule = << >>
    /\ NamedValues = EmptyMap
    /\ TheJIT = << >>
    /\ pc = "lexing"
    /\ ev = << >>
    /\ unitNo = 1
    /\ hist = << >>
    /\ result = Null
    /\ run = Null

EofsReturned == Cardinality({ i \in 1..Len(toks) : toks[i].t = "tok_eof" })

\* CurTok = gettok()
getNextToken ==
    /\ pc = "lexing"
    /\ EofsReturned < MaxEofs
    /\ \E R \in {gettok([in |-> stdin, last |-> LastChar, n |-> nread])} :
           /\ stdin' = R.L.in
           /\ LastChar' = R.L.last
           /\ nread' = R.L.n
           /\ toks' = Append(toks, R.tok)
           /\ CurTok' = R.tok
    /\ pos' = pos + 1
    /\ UNCHANGED << input, BinopPrecedence, FunctionProtos, TheModule,
                    NamedValues, TheJIT, pc, ev, unitNo, hist, result, run >>

NextLex == getNextToken

SpecLex == InitLex /\ [][NextLex]_vars

\* The same token: the same tag, and the same text or value where the tag
\* carries one.
SameToken(a, b) ==
    /\ a.t = b.t
    /\ a.s = b.s
    /\ a.t = "tok_number" => a.v = b.v

SameTokens(a, b) ==
    /\ Len(a) = Len(b)
    /\ \A i \in 1..Len(a) : SameToken(a[i], b[i])

RECURSIVE StripFrom(_, _, _, _), TokensFrom(_, _, _)
\* The text with every comment deleted: from a '#' up to, not including,
\* the next line end or the end of the text.
StripFrom(text, i, inComment, kept) ==
    IF i > Len(text) THEN kept
    ELSE IF text[i] \in {"\n", "\r"}
         THEN StripFrom(text, i + 1, FALSE, Append(kept, text[i]))
    ELSE IF inComment \/ text[i] = "#"
         THEN StripFrom(text, i + 1, TRUE, kept)
    ELSE StripFrom(text, i + 1, FALSE, Append(kept, text[i]))

StripComments(text) == StripFrom(text, 1, FALSE, << >>)

TokensNext(R, k, got) == TokensFrom(R.L, k - 1, Append(got, R.tok))

\* The first k tokens repeated gettok() calls produce from lexer state L.
TokensFrom(L, k, got) ==
    IF k = 0 THEN got ELSE TokensNext(gettok(L), k, got)

TokensOf(text, k) ==
    TokensFrom([in |-> text, last |-> " ", n |-> 0], k, << >>)

\* C17: comments are transparent: the tokens gettok has produced are the
\* tokens it produces from the same text with every comment deleted.
C17_CommentsTransparent ==
    pc = "lexing" =>
        SameTokens(toks, TokensOf(StripComments(input), Len(toks)))

\* A text whose comment holds what would be a number has been lexed to the
\* end: an identifier, then end of input.
C17_Witness ==
    /\ pc = "lexing"
    /\ input = << "i", "#", "1", "\n" >>
    /\ Len(toks) = 2
    /\ toks[1] = Id("i")
    /\ toks[2] = tok_eof

\* C18: once gettok has returned end-of-input, every later call returns
\* end-of-input and reads no character.
C18_EofSticky ==
    [][ (pc = "lexing" /\ toks # << >> /\ toks[Len(toks)].t = "tok_eof") =>
            /\ nread' = nread
            /\ stdin' = stdin
            /\ LastChar' = LastChar
            /\ toks'[Len(toks')].t = "tok_eof" ]_vars

\* The input ended inside a comment, and gettok was called twice after it
\* had returned end-of-input.
C18_Witness ==
    /\ pc = "lexing"
    /\ Len(input) >= 2
    /\ input[Len(input) - 1] = "#"
    /\ input[Len(input)] = "n"
    /\ EofsReturned = 3
    /\ nread = Len(input) + 1

-----------------------------------------------------------------------------
(* Code generation of one function, and the execution of the function      *)
(* generated.  The function is def f(x) with one of the bodies below; the  *)
(* registry holds the prototypes of earlier externs.  The functions called *)
(* are outside the function generated: a call returns any of Returns.      *)

Call1(Callee, arg) == CallExprAst(Callee, << arg >>)

\* extern a(x); extern b(x); ... extern g(x y)
GenProtos ==
    [n \in {"a", "b", "c", "e", "s", "t", "g"} |->
        IF n = "g" THEN << "x", "y" >> ELSE << "x" >>]

\* The branches of an if that call no function but nm.
Branches(nm, v) ==
    { NumberExprAST(v),
      Call1(nm, VariableExprAST("x")),
      IfExprAST(Call1(nm, VariableExprAST("x")), Call1(nm, NumberExprAST(0)),
                Call1(nm, NumberExprAST(1))),
      ForExprAST("i", NumberExprAST(0), Call1(nm, VariableExprAST("i")), Null,
                 Call1(nm, VariableExprAST("i"))) }

IfPrograms ==
    { IfExprAST(c, t, e) :
        c \in { VariableExprAST("x"), Call1("c", VariableExprAST("x")),
                NumberExprAST(1) },
        t \in Branches("t", 1), e \in Branches("e", 2) }

ForBodies(v) ==
    { Call1("b", VariableExprAST(v)),
      IfExprAST(Call1("b", VariableExprAST(v)), NumberExprAST(1),
                NumberExprAST(2)),
      ForExprAST(v, NumberExprAST(5), NumberExprAST(0), Null,
                 Call1("b", VariableExprAST(v))) }

ForPrograms ==
    UNION { { ForExprAST(v, start, end, step, body) :
                start \in { NumberExprAST(0), VariableExprAST("x"),
                            Call1("a", VariableExprAST(v)) },
                end \in { Call1("e", VariableExprAST(v)),
                          BinaryExprAST("<", VariableExprAST(v),
                                        NumberExprAST(2)) },
                step \in { Null, NumberExprAST(2),
                           Call1("s", VariableExprAST(v)) },
                body \in ForBodies(v) } : v \in {"x", "i"} }

\* A for as the left operand of +, with the loop variable or a parameter of
\* its name as the right operand.
SumPrograms ==
    { BinaryExprAST("+",
                    ForExprAST(v, NumberExprAST(0),
                               BinaryExprAST("<", VariableExprAST(v),
                                             NumberExprAST(2)),
                               Null, Call1("b", VariableExprAST(v))),
                    VariableExprAST(v)) : v \in {"x", "i"} }

CallArguments ==
    { Call1("a", VariableExprAST("x")), Call1("b", VariableExprAST("x")),
      VariableExprAST("zz"), NumberExprAST(1) }

CallPrograms ==
    { CallExprAst(f, args) :
        f \in {"g", "h", "f"},
        args \in { << p >> : p \in CallArguments }
                 \cup { << p, q >> : p \in CallArguments, q \in CallArguments } }

\* zz + (for zz = 0, zz < 2 in b(zz)): the failed lookup of zz leaves a null
\* entry for the name in the scope table before the for is generated.
NullEntryProgram ==
    BinaryExprAST("+", VariableExprAST("zz"),
                  ForExprAST("zz", NumberExprAST(0),
                             BinaryExprAST("<", VariableExprAST("zz"),
                                           NumberExprAST(2)),
                             Null, Call1("b", VariableExprAST("zz"))))

OtherPrograms ==
    { VariableExprAST("x"), VariableExprAST("zz"),
      BinaryExprAST("/", NumberExprAST(1), NumberExprAST(2)),
      BinaryExprAST("+", VariableExprAST("x"), NumberExprAST(1)),
      NullEntryProgram }

\* The unit after extern f(y), and the unit after extern f(x y).
RenamedUnit == PrototypeCodegen(PrototypeAST("f", << "y" >>), << >>, 1).mod
WiderUnit == PrototypeCodegen(PrototypeAST("f", << "x", "y" >>), << >>, 1).mod

\* The current unit when the def arrives: new, or holding the declarations
\* of the externs processed since it was opened.  hist keeps it, and the
\* registry the def found.
GenUnits ==
    { << >>,
      PrototypeCodegen(PrototypeAST("f", << "x" >>), << >>, 1).mod,
      PrototypeCodegen(PrototypeAST("g", << "x", "y" >>),
          PrototypeCodegen(PrototypeAST("g", << "x" >>), << >>, 1).mod, 1).mod,
      RenamedUnit, WiderUnit }

\* The registries the def can find with unit U current: the externs of
\* earlier units, with the prototype of an extern f of U; for a new unit
\* also with the prototype f(x y) of an earlier unit.  The unit with g(x)
\* got extern g(x) and then extern g(x y), which the registry holds.
GenRegistries(U) ==
    IF "f" \in FnNames(U)
    THEN { MapSet(GenProtos, "f", ModuleGetFunction(U, "f").args) }
    ELSE IF U = << >>
    THEN { GenProtos, MapSet(GenProtos, "f", << "x", "y" >>) }
    ELSE { GenProtos }

InitGen ==
    /\ input \in { FunctionAST(PrototypeAST("f", << "x" >>), body) :
                     body \in IfPrograms \cup ForPrograms \cup SumPrograms
                              \cup CallPrograms \cup OtherPrograms }
    /\ TheModule \in GenUnits
    /\ TheModule # << >> => input.body \in CallPrograms \cup OtherPrograms
    /\ TheModule \in {RenamedUnit, WiderUnit} => input.body \in OtherPrograms
    /\ FunctionProtos \in GenRegistries(TheModule)
    /\ "f" \in DOMAIN FunctionProtos =>
           input.body \in CallPrograms \cup OtherPrograms
    /\ pos = 0
    /\ CurTok = Tok(0)
    /\ BinopPrecedence = DefaultBinopPrecedence
    /\ NamedValues = EmptyMap
    /\ TheJIT = << >>
    /\ pc = "generate"
    /\ ev = << >>
    /\ unitNo = 1
    /\ hist = << TheModule, FunctionProtos >>
    /\ result = Null
    /\ NothingRead
    /\ run = Null

\* FnAST->codegen()
GenerateFunction ==
    /\ pc = "generate"
    /\ \E C \in {FunctionCodegen(input, FunctionProtos, TheModule,
                                 NamedValues, 2)} :
           /\ result' = C
           /\ FunctionProtos' = C.protos
           /\ TheModule' = C.mod
           /\ NamedValues' = C.nv
           /\ ev' = C.ev
    /\ pc' = "generated"
    /\ UNCHANGED << aux, input, pos, CurTok, BinopPrecedence, TheJIT, unitNo,
                    hist >>

ArgRange == {0, 1}
Returns == {0, 1}

\* The generated function is called: control is at the first instruction
\* of the entry block.  env holds the values of the instructions executed,
\* trace the calls made.
Invoke ==
    /\ pc = "generated"
    /\ result.ok
    /\ \E args \in [DOMAIN result.entry -> ArgRange] :
           run' = [bb |-> 1, prev |-> 0, i |-> 1, env |-> EmptyMap,
                   args |-> args, trace |-> << >>, steps |-> 0, ret |-> 0]
    /\ pc' = "running"
    /\ UNCHANGED << lexvars, input, pos, CurTok, BinopPrecedence,
                    FunctionProtos, TheModule, NamedValues, TheJIT, ev,
                    unitNo, hist, result >>

\* The value of an operand in the running function.
ValueOf(v) ==
    CASE v.k = "const" -> v.v
      [] v.k = "arg" -> run.args[v.n]
      [] v.k = "inst" -> run.env[v.id]

\* The instruction control is at.
Current == result.bbs[run.bb].ins[run.i]

\* The instruction at control has the value val; control moves on.
Computed(I, val) ==
    [run EXCEPT !.env = MapSet(@, I.id, val), !.i = @ + 1, !.steps = @ + 1]

\* Control moves to the start of block BB.
Jump(BB) ==
    [run EXCEPT !.prev = run.bb, !.bb = BB, !.i = 1, !.steps = @ + 1]

Running ==
    /\ pc = "running"
    /\ run.steps < MaxSteps
    /\ run.i <= Len(result.bbs[run.bb].ins)
    /\ UNCHANGED << lexvars, input, pos, CurTok, BinopPrecedence,
                    FunctionProtos, TheModule, NamedValues, TheJIT, ev,
                    unitNo, hist, result >>

\* fadd, fsub, fmul, fcmp, uitofp
ExecuteArithmetic ==
    /\ Running
    /\ Current.op \in {"fadd", "fsub", "fmul", "fcmp_ult", "fcmp_one",
                       "uitofp"}
    /\ run' = Computed(Current,
                       IF Current.op = "uitofp" THEN ValueOf(Current.a[1])
                       ELSE Arith(Current.op, ValueOf(Current.a[1]),
                                  ValueOf(Current.a[2])))
    /\ pc' = pc

\* A PHI node has the value that came in from the block control came from;
\* with no entry for that block the function is malformed.
ExecutePhi ==
    /\ Running
    /\ Current.op = "phi"
    /\ IF \E j \in 1..Len(Current.t) : Current.t[j] = run.prev
       THEN /\ run' = Computed(Current,
                         ValueOf(Current.a[CHOOSE j \in 1..Len(Current.t) :
                                               Current.t[j] = run.prev]))
            /\ pc' = pc
       ELSE /\ run' = run
            /\ pc' = "malformed"

ExecuteCall ==
    /\ Running
    /\ Current.op = "call"
    /\ \E r \in Returns :
           run' = [Computed(Current, r) EXCEPT
                      !.trace = Append(@, [f |-> Current.nm,
                                           args |-> [j \in 1..Len(Current.a) |->
                                                        ValueOf(Current.a[j])],
                                           ret |-> r])]
    /\ pc' = pc

ExecuteBranch ==
    /\ Running
    /\ Current.op \in {"br", "condbr"}
    /\ run' = Jump(IF Current.op = "br" THEN Current.t[1]
                   ELSE IF ValueOf(Current.a[1]) # 0 THEN Current.t[1]
                   ELSE Current.t[2])
    /\ pc' = pc

ExecuteRet ==
    /\ Running
    /\ Current.op = "ret"
    /\ run' = [run EXCEPT !.ret = ValueOf(Current.a[1]), !.steps = @ + 1]
    /\ pc' = "returned"

NextGen ==
    \/ GenerateFunction
    \/ Invoke
    \/ ExecuteArithmetic
    \/ ExecutePhi
    \/ ExecuteCall
    \/ ExecuteBranch
    \/ ExecuteRet

SpecGen == InitGen /\ [][NextGen]_vars

-----------------------------------------------------------------------------
(* Claims about the code generated, checked under SpecGen. *)

\* The instructions of the generated function.
Instructions ==
    UNION { { result.bbs[b].ins[j] : j \in 1..Len(result.bbs[b].ins) } :
              b \in 1..Len(result.bbs) }

CallsTo(nm) == { I \in Instructions : I.op = "call" /\ I.nm = nm }

Generated == pc = "generated" /\ result.ok

\* The operand of the function's ret instruction: the value of its body.
Returned == (CHOOSE I \in Instructions : I.op = "ret").a[1]

\* The body of the function is a for: its loop block is the second block
\* of the function and the PHI node of its variable the first instruction
\* there.
RootFor == input.body.k = "for"
RootPhi == result.bbs[2].ins[1]

Parameter(n) == [k |-> "arg", n |-> n]

\* C11: after a for is generated the scope table is as before it (the loop
\* variable has its prior binding back, or is absent again); start was
\* generated with the outer binding of the name, body, step and end with the
\* induction value.  A name that had only the null entry of a failed
\* lookup had no binding: it is absent afterwards.
C11_ForScopeRestored ==
    /\ (Generated /\ RootFor) =>
          /\ NamedValues = [n \in {"x"} |-> Parameter("x")]
          /\ RootPhi.op = "phi" /\ RootPhi.nm = input.body.v
          /\ input.body.start.k = "var" => RootPhi.a[1] = Parameter("x")
          /\ \A I \in CallsTo("a") : I.a = << Parameter("x") >>
          /\ \A I \in CallsTo("e") \cup CallsTo("s") :
                 I.a = << Inst(RootPhi.id) >>
          /\ \A I \in CallsTo("b") :
                 IF input.body.body.k = "for"
                 THEN /\ I.a # << Inst(RootPhi.id) >>
                      /\ I.a # << Parameter("x") >>
                 ELSE I.a = << Inst(RootPhi.id) >>
    /\ (pc = "generated" /\ input.body = NullEntryProgram) =>
          /\ HasEvent(ev, "call")
          /\ "zz" \notin DOMAIN result.entry
          /\ NamedValues = result.entry
    /\ (pc = "generated" /\ input.body \in SumPrograms) =>
          IF input.body.r.n = "x"
          THEN /\ result.ok
               /\ \E I \in Instructions :
                      I.op = "fadd" /\ I.a = << Const(0), Parameter("x") >>
          ELSE /\ ~result.ok
               /\ HasEvent(ev, "unknown_variable")
               /\ DOMAIN NamedValues = {"x", "i"}
               /\ NamedValues["x"] = Parameter("x")

\* for x = a(x), e(x), s(x) in (for x = 5, 0 in b(x)) in def f(x): the
\* loop variable shadows the parameter, and an inner loop shadows it again.
C11_Witness ==
    /\ Generated
    /\ RootFor
    /\ input.body.v = "x"
    /\ input.body.start = Call1("a", VariableExprAST("x"))
    /\ input.body.end = Call1("e", VariableExprAST("x"))
    /\ input.body.step = Call1("s", VariableExprAST("x"))
    /\ input.body.body.k = "for"
    /\ CallsTo("b") # {}
    /\ NamedValues["x"] = Parameter("x")

-----------------------------------------------------------------------------
\* C13: the value of a generated for is the constant 0.0: it is what the
\* function returns when the for is its body, the left operand when the for
\* is the left operand of +, and the incoming value of the merge PHI when
\* the for is a branch of an if.
C13_ForValueIsZero ==
    /\ (Generated /\ RootFor) =>
          /\ \E I \in Instructions : I.op = "ret"
          /\ \A I \in Instructions : I.op = "ret" => I.a = << Const(0) >>
    /\ (pc = "returned" /\ RootFor) => run.ret = 0
    /\ (Generated /\ input.body \in SumPrograms) =>
          \A I \in Instructions :
              Inst(I.id) = Returned => I.op = "fadd" /\ I.a[1] = Const(0)
    /\ (Generated /\ input.body \in IfPrograms) =>
          \A I \in Instructions :
              (I.op = "phi" /\ I.nm = "iftmp" /\ Inst(I.id) = Returned) =>
                  /\ input.body.t.k = "for" => I.a[1] = Const(0)
                  /\ input.body.e.k = "for" => I.a[2] = Const(0)

\* for i = x, e(i), s(i) in b(i) has run its body with 1 and returned.
C13_Witness ==
    /\ pc = "returned"
    /\ RootFor
    /\ input.body.step # Null
    /\ input.body.step.k = "call"
    /\ input.body.start.k = "var"
    /\ input.body.body.k = "call"
    /\ run.ret = 0
    /\ \E j \in 1..Len(run.trace) :
           run.trace[j].f = "b" /\ run.trace[j].args = << 1 >>

-----------------------------------------------------------------------------
\* The blocks whose terminator can pass control to block M.
Predecessors(M) ==
    { b \in 1..Len(result.bbs) :
        /\ result.bbs[b].ins # << >>
        /\ LET Last == result.bbs[b].ins[Len(result.bbs[b].ins)]
           IN  Last.op \in {"br", "condbr"}
               /\ \E j \in 1..Len(Last.t) : Last.t[j] = M }

\* The block instruction I is in.
BlockOf(I) ==
    CHOOSE b \in 1..Len(result.bbs) :
        \E j \in 1..Len(result.bbs[b].ins) : result.bbs[b].ins[j] = I

\* The calls of function nm the running function has made, in order.
CallsMade(nm) == SelectSeq(run.trace, LAMBDA c : c.f = nm)

\* The value of the condition of the if that is the function's body.
ConditionValue ==
    CASE input.body.c.k = "var" -> run.args["x"]
      [] input.body.c.k = "num" -> input.body.c.v
      [] input.body.c.k = "call" -> CallsMade("c")[1].ret

\* What executing branch br, whose calls are to nm, once and to its end
\* looks like: the calls it made, and the value val it produced.
BranchExecuted(br, nm, val) ==
    LET calls == CallsMade(nm)
    IN  CASE br.k = "num" -> calls = << >> /\ val = br.v
          [] br.k = "call" ->
                /\ Len(calls) = 1
                /\ calls[1].args = << run.args["x"] >>
                /\ val = calls[1].ret
          [] br.k = "if" ->
                /\ Len(calls) = 2
                /\ calls[1].args = << run.args["x"] >>
                /\ calls[2].args = IF calls[1].ret # 0 THEN << 0 >> ELSE << 1 >>
                /\ val = calls[2].ret
          [] br.k = "for" ->
                /\ Len(calls) >= 2
                /\ Len(calls) % 2 = 0
                /\ calls[1].args = << 0 >>
                /\ calls[Len(calls)].ret = 0
                /\ val = 0

\* The name of the block in which generation of a branch ends.
EndBlockName(br, name) ==
    CASE br.k = "if" -> "ifcont"
      [] br.k = "for" -> "afterloop"
      [] OTHER -> name

\* C12: the code of an if executes exactly one of then and else, then when
\* the condition is not 0.0, and the merge value is the value of the branch
\* executed; the two incoming blocks of the merge PHI are the blocks that
\* branch to the merge block, in which generation of each branch ended.
C12_IfExecutesOneBranch ==
    /\ pc # "malformed"
    /\ Generated =>
          \A I \in Instructions :
              (I.op = "phi" /\ I.nm = "iftmp") =>
                  /\ Len(I.t) = 2
                  /\ I.t[1] # I.t[2]
                  /\ {I.t[1], I.t[2]} = Predecessors(BlockOf(I))
    /\ (Generated /\ input.body \in IfPrograms) =>
          \A I \in Instructions :
              Inst(I.id) = Returned =>
                  /\ I.op = "phi"
                  /\ result.bbs[I.t[1]].name = EndBlockName(input.body.t, "then")
                  /\ result.bbs[I.t[2]].name = EndBlockName(input.body.e, "Else")
    /\ (pc \in {"running", "returned"} /\ input.body \in IfPrograms) =>
          CallsMade("t") = << >> \/ CallsMade("e") = << >>
    /\ (pc = "returned" /\ input.body \in IfPrograms) =>
          IF ConditionValue # 0
          THEN /\ CallsMade("e") = << >>
               /\ BranchExecuted(input.body.t, "t", run.ret)
          ELSE /\ CallsMade("t") = << >>
               /\ BranchExecuted(input.body.e, "e", run.ret)

\* if c(x) then (if t(x) then t(0) else t(1)) else (for i = 0, e(i) in e(i))
\* was called with x = 1; c returned 0 and the else branch has run.
C12_Witness ==
    /\ pc = "returned"
    /\ input.body \in IfPrograms
    /\ input.body.c.k = "call"
    /\ input.body.t.k = "if"
    /\ input.body.e.k = "for"
    /\ run.args["x"] = 1
    /\ ConditionValue = 0
    /\ Len(CallsMade("e")) = 4

-----------------------------------------------------------------------------
\* C15: when generation of the body fails, Function code generation fails
\* and the unit holds no function named as the failed function, neither the
\* declaration an earlier extern left there nor a definition.
C15_FailedFunctionErased ==
    pc = "generated" =>
        /\ result.ok <=> ~HasEvent(ev, "unknown_variable")
                         /\ ~HasEvent(ev, "unknown_function")
                         /\ ~HasEvent(ev, "incorrect_arguments")
                         /\ ~HasEvent(ev, "invalid_binary_operator")
        /\ ~result.ok =>
              /\ input.proto.name \notin FnNames(TheModule)
              /\ \A j \in 1..Len(TheModule) :
                     TheModule[j].name # input.proto.name
        /\ result.ok =>
              \E j \in 1..Len(TheModule) :
                  /\ TheModule[j].name = input.proto.name
                  /\ TheModule[j].defined

\* extern f(x) was processed in this unit, then def f(x) g(a(x), zz): the
\* call to a was generated before the unknown variable zz failed the body.
C15_Witness ==
    /\ pc = "generated"
    /\ ~result.ok
    /\ input.body.k = "call"
    /\ input.body.callee = "g"
    /\ Len(input.body.args) = 2
    /\ input.body.args[2] = VariableExprAST("zz")
    /\ HasEvent(ev, "call")
    /\ FnNames(hist[1]) = {"f"}
    /\ FnNames(TheModule) = {"g", "a"}
    /\ "f" \in DOMAIN FunctionProtos

-----------------------------------------------------------------------------
\* The parameter count of the declaration a call in the body of f resolves
\* to: the unit's declaration first, then the registry's prototype (f's own
\* is registered before its body is generated); 0 - 1 when there is none.
DeclaredArity(callee) ==
    IF callee \in FnNames(hist[1])
    THEN Len(ModuleGetFunction(hist[1], callee).args)
    ELSE IF callee = input.proto.name THEN Len(input.proto.args)
    ELSE IF callee \in DOMAIN hist[2] THEN Len(hist[2][callee])
    ELSE 0 - 1

\* An argument of the call programs whose generation fails.
FailingArgument(p) == p = VariableExprAST("zz")

\* What generating argument p logs.
ArgumentEvents(p) ==
    CASE p.k = "call" -> << Ev("resolved", p.callee), Ev("call", p.callee) >>
      [] FailingArgument(p) -> << Ev("unknown_variable", p.n) >>
      [] OTHER -> << >>

\* What generating the arguments from the i-th on, left to right and up to
\* the first that fails, and then the call of callee, logs.
RECURSIVE ArgumentsFrom(_, _, _)
ArgumentsFrom(args, i, callee) ==
    IF i > Len(args) THEN << Ev("call", callee) >>
    ELSE IF FailingArgument(args[i]) THEN ArgumentEvents(args[i])
    ELSE ArgumentEvents(args[i]) \o ArgumentsFrom(args, i + 1, callee)

\* C16: a call of a function neither in the unit nor in the registry fails
\* with the unknown-function error, a call whose argument count differs from
\* the resolved declaration's parameter count with the argument-count error,
\* both before any argument is generated; otherwise the arguments are
\* generated left to right up to the first that fails, and the call is
\* emitted when none fails.
C16_CallChecksBeforeArguments ==
    (pc = "generated" /\ input.body \in CallPrograms) =>
        LET callee == input.body.callee
            args == input.body.args
        IN  /\ DeclaredArity(callee) < 0 =>
                /\ ~result.ok
                /\ ev = << Ev("unresolved", callee),
                           Ev("unknown_function", callee) >>
                /\ FnNames(TheModule) = FnNames(hist[1]) \ {"f"}
            /\ (DeclaredArity(callee) >= 0
                  /\ DeclaredArity(callee) # Len(args)) =>
                /\ ~result.ok
                /\ ev = << Ev("resolved", callee),
                           Ev("incorrect_arguments", callee) >>
                /\ FnNames(TheModule) \subseteq
                       ((FnNames(hist[1]) \cup {callee}) \ {"f"})
            /\ DeclaredArity(callee) = Len(args) =>
                /\ ev = << Ev("resolved", callee) >>
                           \o ArgumentsFrom(args, 1, callee)
                /\ result.ok <=> \A j \in 1..Len(args) :
                                     ~FailingArgument(args[j])
                /\ result.ok =>
                     \E I \in Instructions :
                        /\ Inst(I.id) = Returned
                        /\ I.op = "call" /\ I.nm = callee
                        /\ Len(I.a) = Len(args)
                        /\ \A j \in 1..Len(args) :
                             CASE args[j].k = "num" -> I.a[j] = Const(args[j].v)
                               [] args[j].k = "call" ->
                                    \E A \in CallsTo(args[j].callee) :
                                        /\ I.a[j] = Inst(A.id)
                                        /\ A.id < I.id
                                        /\ \A k \in 1..(j - 1) :
                                             args[k].k = "call" =>
                                                 I.a[k].id <= A.id
                               [] OTHER -> FALSE

\* extern g(x) and then extern g(x y) went into the unit: its g has one
\* parameter, the registry's g two.  def f(x) g(b(x), a(x)) fails on the
\* count of the unit's declaration and generates neither b(x) nor a(x).
C16_Witness ==
    /\ pc = "generated"
    /\ input.body = CallExprAst("g", << Call1("b", VariableExprAST("x")),
                                        Call1("a", VariableExprAST("x")) >>)
    /\ FnNames(hist[1]) = {"g", "g.1"}
    /\ HasEvent(ev, "incorrect_arguments")
    /\ ~HasEvent(ev, "call")
    /\ FnNames(TheModule) = {"g", "g.1"}

-----------------------------------------------------------------------------
\* The functions one iteration of the for that is the function's body calls,
\* in order: b in the body, then s for a step that is a call, then e for an
\* end condition that is a call.
IterationCalls ==
    << "b" >>
    \o (IF ~IsNull(input.body.step) /\ input.body.step.k = "call"
        THEN << "s" >> ELSE << >>)
    \o (IF input.body.end.k = "call" THEN << "e" >> ELSE << >>)

\* The calls the loop has made: all but the call in start.
LoopCalls == SelectSeq(run.trace, LAMBDA c : c.f # "a")

StartValue ==
    CASE input.body.start.k = "num" -> input.body.start.v
      [] input.body.start.k = "var" -> run.args["x"]
      [] input.body.start.k = "call" -> CallsMade("a")[1].ret

\* The step of iteration k: 1.0 when the for has none.
StepValue(k) ==
    IF IsNull(input.body.step) THEN 1
    ELSE IF input.body.step.k = "num" THEN input.body.step.v
    ELSE CallsMade("s")[k].ret

\* The loop variable in iteration k.
RECURSIVE VariableAt(_)
VariableAt(k) ==
    IF k = 1 THEN StartValue ELSE VariableAt(k - 1) + StepValue(k - 1)

\* The end condition as evaluated at the end of iteration k, when it reads
\* the variable of iteration k.
EndValue(k) ==
    IF input.body.end.k = "call" THEN CallsMade("e")[k].ret
    ELSE IF VariableAt(k) < 2 THEN 1 ELSE 0

\* C19: the code of a for runs the body with the variable at the start value
\* before the end condition is evaluated for the first time, then in every
\* iteration body, step, end in this order, the end condition reading the
\* value the body read (not the stepped value); another iteration follows
\* only when the end condition was not 0.0.
C19_BodyBeforeEndCondition ==
    (pc \in {"running", "returned"} /\ RootFor) =>
        LET P == Len(IterationCalls)
        IN  /\ \A j \in 1..Len(LoopCalls) :
                  LET k == ((j - 1) \div P) + 1
                      name == IterationCalls[((j - 1) % P) + 1]
                  IN  /\ LoopCalls[j].f = name
                      /\ LoopCalls[j].args =
                            IF name = "b" /\ input.body.body.k = "for"
                            THEN << 5 >> ELSE << VariableAt(k) >>
                      /\ k > 1 => EndValue(k - 1) # 0
            /\ (run.trace # << >> /\ input.body.start.k = "call") =>
                  /\ run.trace[1].f = "a"
                  /\ Len(CallsMade("a")) = 1
            /\ pc = "returned" =>
                  /\ Len(LoopCalls) >= P
                  /\ Len(LoopCalls) % P = 0
                  /\ EndValue(Len(LoopCalls) \div P) = 0

\* for i = x, e(i), s(i) in b(i) called with x = 1: b(1) ran, s(1) returned
\* 1, e saw 1 and returned 0: the body ran once and the function returned.
C19_Witness ==
    /\ pc = "returned"
    /\ RootFor
    /\ input.body.start.k = "var"
    /\ input.body.body.k = "call"
    /\ IterationCalls = << "b", "s", "e" >>
    /\ Len(LoopCalls) = 3
    /\ LoopCalls[1].args = << 1 >>
    /\ LoopCalls[2].ret = 1
    /\ LoopCalls[3].args = << 1 >>
    /\ LoopCalls[3].ret = 0

-----------------------------------------------------------------------------
\* The tokens gettok has handed to the parser so far, end-of-input counted
\* once: getNextToken at the end of the input reads nothing new.
TokensRead == IF pos <= Len(input) THEN pos ELSE Len(input) + 1

\* C21: a turn of the driver loop at end-of-input ends the loop, and every
\* other turn (';', def, extern, expression, parsed or not, generated or
\* not) reads at least one token more; so the items processed are never more
\* than the tokens of the input.
C21_EveryTurnConsumes ==
    [][ /\ (pc = "awaiting" /\ CurTok = tok_eof) => (pc' = "done" /\ pos' = pos)
        /\ (pc = "awaiting" /\ CurTok # tok_eof) => TokensRead' > TokensRead
        /\ pc # "awaiting" => pos' = pos
        /\ Len(hist') <= TokensRead' - 1
        /\ Len(hist') <= Len(input) ]_vars

\* The input ends in def: the prototype fails at end-of-input, where the
\* token skipped for recovery is end-of-input again; the turn before it was
\* a failed expression.
C21_Witness ==
    /\ pc = "done"
    /\ Len(hist) = 2
    /\ ~hist[1].parsed /\ hist[1].kind = "expr"
    /\ ~hist[2].parsed /\ hist[2].kind = "def"
    /\ hist[2].stop = Len(input) + 1
    /\ pos = Len(input) + 2
    /\ input[Len(input)] = tok_def

-----------------------------------------------------------------------------
\* C22: while the body of a def is generated every parameter name of the
\* def's own prototype is bound to that parameter, also after an extern of
\* the same name with another parameter list in the unit still open.
\* (result.entry is the scope table the body's generation starts with.)
C22_OwnParametersBound ==
    pc = "generated" =>
        /\ DOMAIN result.entry =
               { input.proto.args[i] : i \in 1..Len(input.proto.args) }
        /\ \A i \in 1..Len(input.proto.args) :
               result.entry[input.proto.args[i]] =
                   Parameter(input.proto.args[i])

-----------------------------------------------------------------------------
\* C23: Function code generation writes the prototype into the registry
\* before the body is generated: afterwards the registry is the one found,
\* with the entry of the function's name created or overwritten, whether the
\* body failed or not; a call of the function in its own body is checked
\* against the new entry.
C23_RegistryWrittenBeforeBody ==
    pc = "generated" =>
        /\ FunctionProtos = MapSet(hist[2], input.proto.name, input.proto.args)
        /\ (input.body \in CallPrograms
              /\ input.body.callee = input.proto.name) =>
                 /\ HasEvent(ev, "resolved")
                 /\ Len(input.body.args) # Len(input.proto.args) =>
                        HasEvent(ev, "incorrect_arguments")

\* The registry held f(x y) from an earlier unit; def f(x) f(a(x), zz)
\* failed on the argument count of its own prototype, and the registry
\* holds f(x).
C23_Witness ==
    /\ pc = "generated"
    /\ ~result.ok
    /\ hist[1] = << >>
    /\ "f" \in DOMAIN hist[2]
    /\ hist[2]["f"] = << "x", "y" >>
    /\ input.body = CallExprAst("f", << Call1("a", VariableExprAST("x")),
                                        VariableExprAST("zz") >>)
    /\ FunctionProtos["f"] = << "x" >>

====
